---- MODULE Spec2Model ----
(***************************************************************************)
(* Rate limiting and quota enforcement of repazoo.                         *)
(*                                                                         *)
(*   workflows/utils/rate_limiter.py   RedisRateLimiter (task path)        *)
(*   backend/middleware/rate_limiter.py RateLimiter (HTTP path)            *)
(*   backend/database/supabase_client.py, backend/api/routes.py  (quota)   *)
(*                                                                         *)
(* Time is counted in clock ticks, TicksPerSec ticks to the second, so     *)
(* that the float returned by time.time() has a fractional part and int()  *)
(* truncates something.  One process reads a strictly larger time.time()   *)
(* on each of its calls (a call spans store round trips); two processes    *)
(* may read the same value.                                                *)
(*                                                                         *)
(* Strings are sequences of tokens; ":" is a token of its own, so that     *)
(* f"ratelimit:{service}:{user_id}" is a concatenation and two keys are    *)
(* equal exactly when the formatted strings are.                           *)
(***************************************************************************)
EXTENDS Integers, Sequences, FiniteSets, TLC

VARIABLES
    clock,      \* wall clock, in ticks
    redis,      \* the coordination store: key -> value
    LIMITS,     \* RedisRateLimiter.LIMITS
    pc,         \* per process: position inside check_and_increment
    frame,      \* per process: locals of the call in progress
    last,       \* the call that returned last, and what it returned
    run,        \* per (service, user): the calls made since its window was empty
    denial,     \* per (service, user): the latest denial not yet followed by an admission
    snapshot,   \* the last upstream sync and the admissions since
    read,       \* per process: it has made a call at this clock value
    observe,    \* which of run, denial and snapshot the specification records
    db,         \* the durable store: subscriptions, api_usage, analyses
    handler,    \* per process: position of its HTTP request
    quota_check, \* what check_monthly_quota returned last
    reply,      \* the HTTP response sent last
    requests,   \* the HTTP requests received so far
    wrapper,    \* the call of an exponential_backoff wrapper in progress
    windows,    \* the HTTP path's keys of the coordination store
    request,    \* per process: the request inside RateLimitMiddleware.dispatch
    response,   \* the response RateLimitMiddleware let out last
    http_redis, \* RateLimiter._redis: "none" until connect
    outbound,   \* the call of a third-party API by a task, in progress
    client,     \* one HTTP client: its requests and what they were told
    skew,       \* per process: how far its clock is ahead of the store's
    admits      \* the times, on the store's clock, of the admissions so far

limiterVars ==
    <<clock, redis, LIMITS, pc, frame, last, run, denial, snapshot, read,
      observe>>

quotaVars == <<db, handler, quota_check, reply, requests>>

retryVars == <<wrapper>>

gateVars == <<windows, request, response, http_redis>>

outboundVars == <<outbound>>

clientVars == <<client>>

skewVars == <<skew, admits>>

\* what the steps of the task-path limiter, of the quota path, of the
\* retry wrapper, of the gate and of an outbound call leave alone
besideLimiter ==
    <<quotaVars, retryVars, gateVars, outboundVars, clientVars, skewVars>>
besideQuota ==
    <<limiterVars, retryVars, gateVars, outboundVars, clientVars, skewVars>>
besideRetry ==
    <<limiterVars, quotaVars, gateVars, outboundVars, clientVars, skewVars>>
besideGate ==
    <<limiterVars, quotaVars, retryVars, outboundVars, clientVars, skewVars>>
besideOutbound ==
    <<limiterVars, quotaVars, retryVars, gateVars, clientVars, skewVars>>

vars ==
    <<limiterVars, quotaVars, retryVars, gateVars, outboundVars, clientVars,
      skewVars>>

-----------------------------------------------------------------------------
(* Bounds *)

TicksPerSec == 2
MaxClock == 5

Procs == {1, 2}

Max(a, b) == IF a >= b THEN a ELSE b

\* int(x) of a value x given in ticks: whole seconds, truncated toward zero
IntSeconds(ticks) ==
    IF ticks >= 0 THEN ticks \div TicksPerSec ELSE -((-ticks) \div TicksPerSec)

-----------------------------------------------------------------------------
(* Strings *)

Str(tok) == <<tok>>
Colon == Str(":")

\* the service names the modelled callers pass: one in the table, one not
Services == {Str("test_service"), Str("twitter_search")}
Users == {Str("a"), Str("a") \o Colon \o Str("b")}

\* the table with the anthropic_api entry changed
InitialLimitsChanged ==
    (Str("twitter_user_timeline") :> [requests |-> 900, window_seconds |-> 900]) @@
    (Str("twitter_user_lookup") :> [requests |-> 900, window_seconds |-> 900]) @@
    (Str("twitter_tweet_lookup") :> [requests |-> 300, window_seconds |-> 900]) @@
    (Str("anthropic_api") :> [requests |-> 100, window_seconds |-> 60]) @@
    (Str("anthropic_api_tier2") :> [requests |-> 100, window_seconds |-> 60]) @@
    (Str("test_service") :> [requests |-> 2, window_seconds |-> 2])

\* the table built by __init__, and the entry the compliance tests add
InitialLimits ==
    (Str("twitter_user_timeline") :> [requests |-> 900, window_seconds |-> 900]) @@
    (Str("twitter_user_lookup") :> [requests |-> 900, window_seconds |-> 900]) @@
    (Str("twitter_tweet_lookup") :> [requests |-> 300, window_seconds |-> 900]) @@
    (Str("anthropic_api") :> [requests |-> 50, window_seconds |-> 60]) @@
    (Str("anthropic_api_tier2") :> [requests |-> 100, window_seconds |-> 60]) @@
    (Str("test_service") :> [requests |-> 2, window_seconds |-> 2])

\* the key as it would be without the caller in it
GetKeyOfService(service, user_id) ==
    Str("ratelimit") \o Colon \o service

\* _get_key
GetKey(service, user_id) ==
    Str("ratelimit") \o Colon \o service \o Colon \o user_id

\* reset_key of sync_with_twitter_headers
ResetKey(service, user_id) ==
    Str("twitter_reset") \o Colon \o service \o Colon \o user_id

\* the member check_and_increment adds: f"{now}:{user_id}"
Member(now, user_id) == Str(now) \o Colon \o user_id

AllKeys ==
    {GetKey(s, u) : s \in Services, u \in Users} \cup
    {ResetKey(s, u) : s \in Services, u \in Users}

-----------------------------------------------------------------------------
(* The store: one key space, sorted sets and strings with a time to live *)

Absent == [kind |-> "none", members |-> {}, val |-> 0, ttl |-> -1]

WrongType(v) == v.kind = "string"

\* ZREMRANGEBYSCORE with the upper end of the range left out of it
ZRemRangeByScoreExclusive(v, lo, hi) ==
    LET kept == {e \in v.members : ~(lo <= e.score /\ e.score < hi)}
    IN  IF kept = {} THEN [v EXCEPT !.kind = "none", !.members = {},
                                    !.ttl = -1]
        ELSE [v EXCEPT !.members = kept]

\* ZREMRANGEBYSCORE key lo hi; a sorted set left empty is removed
ZRemRangeByScore(v, lo, hi) ==
    LET kept == {e \in v.members : ~(lo <= e.score /\ e.score <= hi)}
    IN  IF kept = {} THEN Absent ELSE [v EXCEPT !.members = kept]

ZCard(v) == Cardinality(v.members)

\* ZADD key {member: score}: an existing member only changes its score
ZAdd(v, member, score) ==
    LET others == {e \in v.members : e.member # member}
        added == others \cup {[member |-> member, score |-> score]}
    IN  IF v.kind = "none"
        THEN [kind |-> "zset", members |-> added, val |-> 0, ttl |-> -1]
        ELSE [v EXCEPT !.members = added]

\* EXPIRE with a time to live one second short
ExpireEarly(v, seconds, t) ==
    IF v.kind = "none" THEN v
    ELSE [v EXCEPT !.ttl = t + (seconds - 1) * TicksPerSec]

\* EXPIRE key seconds, at store time t
Expire(v, seconds, t) ==
    IF v.kind = "none" THEN v ELSE [v EXCEPT !.ttl = t + seconds * TicksPerSec]

\* ZRANGE key 0 0 WITHSCORES: the scores of the first element, if any
ZRangeFirst(v) ==
    {e.score : e \in {x \in v.members : \A y \in v.members : x.score <= y.score}}

\* SETEX key seconds value, at store time t
SetEx(seconds, value, t) ==
    [kind |-> "string", members |-> {}, val |-> value,
     ttl |-> t + seconds * TicksPerSec]

-----------------------------------------------------------------------------
(* Process state and the record of what callers saw *)

Pairs == Services \X Users

IdleFrame ==
    [service |-> <<>>, user_id |-> <<>>, now |-> -1, current_count |-> 0]

\* what a call returned: value or usage for a normal return, raised for an
\* exception.  A check_and_increment return also carries: failed, the store raised during
\* the call; index, the call's position in the run of its key (0: not in a
\* run); clean, no call of the run met a store error; due, an earlier denial's
\* retry_after had elapsed when the call read the clock.
NoReturn ==
    [op |-> "none", service |-> <<>>, user_id |-> <<>>,
     value |-> <<FALSE, 0>>, usage |-> <<0, 0>>,
     raised |-> "none", failed |-> FALSE, index |-> 0, clean |-> TRUE,
     due |-> FALSE]

\* a return of check_and_increment: (allowed, retry_after)
Returned(op, service, user_id, value) ==
    [NoReturn EXCEPT !.op = op, !.service = service, !.user_id = user_id,
                     !.value = value]

\* a return of get_current_usage: (current_count, max_allowed)
ReturnedUsage(op, service, user_id, usage) ==
    [NoReturn EXCEPT !.op = op, !.service = service, !.user_id = user_id,
                     !.usage = usage]

\* a return of None
ReturnedNone(op, service, user_id) ==
    [NoReturn EXCEPT !.op = op, !.service = service, !.user_id = user_id]

Raised(op, service, user_id, error) ==
    [NoReturn EXCEPT !.op = op, !.service = service, !.user_id = user_id,
                     !.raised = error]

\* a run: the calls to one key since a call found every earlier admission
\* expired, all inside one window; start = -1: no call yet, -2: not tracked
NoRun == [start |-> -1, calls |-> 0, clean |-> TRUE, last_admit |-> -1]

NoSnapshot ==
    [service |-> <<>>, user_id |-> <<>>, remaining |-> 0, reset |-> 0,
     admitted |-> 0]

WindowTicks(service) == LIMITS[service].window_seconds * TicksPerSec

\* the run of a key as a call reading the clock at now joins it
Joined(r, service, now) ==
    IF r.last_admit < 0 \/ now - r.last_admit >= WindowTicks(service)
    THEN [r EXCEPT !.start = now, !.calls = 1, !.clean = TRUE]
    ELSE IF r.start >= 0 /\ now - r.start < WindowTicks(service)
         THEN [r EXCEPT !.calls = @ + 1]
         ELSE [r EXCEPT !.start = -2, !.calls = 0]

\* an admission the store recorded before the provider's reset time counts
\* against the snapshot
Noted(service, user_id, allowed, failed) ==
    IF /\ "snapshot" \in observe
       /\ allowed /\ ~failed
       /\ snapshot.service = service
       /\ snapshot.user_id = user_id
       /\ clock < snapshot.reset * TicksPerSec
    THEN [snapshot EXCEPT !.admitted = @ + 1]
    ELSE snapshot

\* p may start a call: it is not inside one, and the clock has moved on
\* since its last call
MayRun(p) ==
    /\ pc[p] = "idle"
    /\ ~read[p]

\* check_and_increment returns to its caller
Finish(p, service, user_id, now, allowed, retry_after, failed) ==
    LET pair == <<service, user_id>>
        r == IF "run" \in observe
             THEN [run[pair] EXCEPT !.clean = @ /\ ~failed,
                                    !.last_admit =
                                        IF allowed /\ ~failed THEN now ELSE @]
             ELSE run[pair]
        due_at == IF denial[pair] < 0
                  THEN now + retry_after * TicksPerSec
                  ELSE IF denial[pair] <= now + retry_after * TicksPerSec
                       THEN denial[pair]
                       ELSE now + retry_after * TicksPerSec
    IN  /\ pc' = [pc EXCEPT ![p] = "idle"]
        /\ frame' = [frame EXCEPT ![p] = IdleFrame]
        /\ run' = [run EXCEPT ![pair] = r]
        /\ denial' = [denial EXCEPT ![pair] =
                         IF allowed \/ "denial" \notin observe
                         THEN -1 ELSE due_at]
        /\ last' = [op |-> "check_and_increment", service |-> service,
                    user_id |-> user_id, value |-> <<allowed, retry_after>>,
                    usage |-> <<0, 0>>, raised |-> "none", failed |-> failed,
                    index |-> IF r.start >= 0 THEN r.calls ELSE 0,
                    clean |-> r.clean,
                    due |-> denial[pair] >= 0 /\ now >= denial[pair]]
        /\ snapshot' = Noted(service, user_id, allowed, failed)

-----------------------------------------------------------------------------
(* RedisRateLimiter.check_and_increment *)

\* line 111, with the comparison a slip would write
OverLimitOffByOne(current_count, max_requests) == current_count > max_requests

OverLimit(current_count, max_requests) == current_count >= max_requests

\* lines 113-118, with the window length in place of the oldest entry's age
RetryAfterFixed(oldest, service, now) == {LIMITS[service].window_seconds}

\* lines 113-118: retry_after from the scores ZRANGE returned, at time now
RetryAfter(oldest, service, now) ==
    IF oldest # {}
    THEN {IntSeconds((t + WindowTicks(service)) - now) + 1 : t \in oldest}
    ELSE {LIMITS[service].window_seconds}

\* line 136, and lines 87 and 141: the tuple of an admission
Admitted == <<TRUE, 0>>

\* what check_and_increment(service, user_id) decides when it runs alone on
\* the store at time now
Decision(store, service, user_id, now) ==
    IF service \notin DOMAIN LIMITS
    THEN {Admitted}
    ELSE LET purged == ZRemRangeByScore(store[GetKey(service, user_id)], 0,
                                        now - WindowTicks(service))
         IN  IF WrongType(purged)
             THEN {Admitted}
             ELSE IF OverLimit(ZCard(purged), LIMITS[service].requests)
                  THEN {<<FALSE, r>> :
                           r \in RetryAfter(ZRangeFirst(purged), service, now)}
                  ELSE {Admitted}

\* lines 85-87: a service that is not in LIMITS
CheckUnknown(p, service, user_id) ==
    /\ MayRun(p)
    /\ service \notin DOMAIN LIMITS
    /\ read' = [read EXCEPT ![p] = TRUE]
    /\ pc' = pc
    /\ last' = Returned("check_and_increment", service, user_id, Admitted)
    /\ UNCHANGED <<clock, redis, LIMITS, frame, run, denial, snapshot, observe, besideLimiter>>

\* lines 89-98: read the limits and the clock
CheckBegin(p, service, user_id) ==
    /\ MayRun(p)
    /\ service \in DOMAIN LIMITS
    /\ read' = [read EXCEPT ![p] = TRUE]
    /\ frame' = [frame EXCEPT ![p] =
                    [service |-> service, user_id |-> user_id, now |-> clock,
                     current_count |-> 0]]
    /\ run' = [run EXCEPT ![<<service, user_id>>] =
                  IF "run" \in observe THEN Joined(@, service, clock) ELSE @]
    /\ pc' = [pc EXCEPT ![p] = "pipe1"]
    /\ UNCHANGED <<clock, redis, LIMITS, last, denial, snapshot, observe, besideLimiter>>

\* lines 100-111: the first pipeline, purge and count
CheckCount(p, fail) ==
    LET f == frame[p]
        key == GetKey(f.service, f.user_id)
        window_start == f.now - WindowTicks(f.service)
        purged == ZRemRangeByScore(redis[key], 0, window_start)
        current_count == ZCard(purged)
    IN  /\ pc[p] = "pipe1"
        /\ IF fail \/ WrongType(redis[key])
           THEN \* lines 138-141
                /\ Finish(p, f.service, f.user_id, f.now, Admitted[1], Admitted[2], TRUE)
                /\ UNCHANGED redis
           ELSE /\ redis' = [redis EXCEPT ![key] = purged]
                /\ frame' = [frame EXCEPT ![p].current_count = current_count]
                /\ pc' = [pc EXCEPT ![p] =
                             IF OverLimit(current_count,
                                          LIMITS[f.service].requests)
                             THEN "oldest" ELSE "add"]
                /\ UNCHANGED <<last, run, denial, snapshot>>
        /\ UNCHANGED <<clock, LIMITS, read, observe, besideLimiter>>

\* lines 111-124, with the request recorded before the return as on an
\* admission
CheckDenyRecording(p, fail) ==
    LET f == frame[p]
        key == GetKey(f.service, f.user_id)
        oldest == ZRangeFirst(redis[key])
        added == ZAdd(redis[key], Member(f.now, f.user_id), f.now)
    IN  /\ pc[p] = "oldest"
        /\ IF fail \/ WrongType(redis[key])
           THEN /\ Finish(p, f.service, f.user_id, f.now, Admitted[1],
                          Admitted[2], TRUE)
                /\ UNCHANGED redis
           ELSE /\ redis' = [redis EXCEPT ![key] =
                                Expire(added,
                                       LIMITS[f.service].window_seconds + 60,
                                       clock)]
                /\ \E retry_after \in RetryAfter(oldest, f.service, f.now) :
                      Finish(p, f.service, f.user_id, f.now, FALSE,
                             retry_after, FALSE)
        /\ UNCHANGED <<clock, LIMITS, read, observe, besideLimiter>>

\* lines 111-124: over the limit, retry_after from the oldest entry
CheckDeny(p, fail) ==
    LET f == frame[p]
        key == GetKey(f.service, f.user_id)
        oldest == ZRangeFirst(redis[key])
    IN  /\ pc[p] = "oldest"
        /\ IF fail \/ WrongType(redis[key])
           THEN Finish(p, f.service, f.user_id, f.now, Admitted[1], Admitted[2], TRUE)
           ELSE \E retry_after \in RetryAfter(oldest, f.service, f.now) :
                  Finish(p, f.service, f.user_id, f.now, FALSE, retry_after, FALSE)
        /\ UNCHANGED <<clock, redis, LIMITS, read, observe, besideLimiter>>

\* lines 126-136: the second pipeline, record the request
CheckAdd(p, fail) ==
    LET f == frame[p]
        key == GetKey(f.service, f.user_id)
        added == ZAdd(redis[key], Member(f.now, f.user_id), f.now)
    IN  /\ pc[p] = "add"
        /\ IF fail \/ WrongType(redis[key])
           THEN /\ Finish(p, f.service, f.user_id, f.now, Admitted[1], Admitted[2], TRUE)
                /\ UNCHANGED redis
           ELSE /\ redis' = [redis EXCEPT ![key] =
                                Expire(added,
                                       LIMITS[f.service].window_seconds + 60,
                                       clock)]
                /\ Finish(p, f.service, f.user_id, f.now, Admitted[1], Admitted[2], FALSE)
        /\ UNCHANGED <<clock, LIMITS, read, observe, besideLimiter>>

-----------------------------------------------------------------------------
(* check_and_increment called by processes whose clocks differ *)

\* the most a process's clock is ahead of the store's, in ticks: less than
\* the window of test_service
MaxSkew == 3

\* time.time() on process p
LocalTime(p) == clock + skew[p]

NoSkew == [p \in Procs |-> 0]

\* lines 74-141, run by process p with no other call in between and no
\* store error; now is the clock of p, the key's time to live is counted
\* by the store
SkewedCheck(p, service, user_id) ==
    LET now == LocalTime(p)
        key == GetKey(service, user_id)
        purged == ZRemRangeByScore(redis[key], 0,
                                   now - WindowTicks(service))
        added == ZAdd(purged, Member(now, user_id), now)
    IN  /\ MayRun(p)
        /\ service \in DOMAIN LIMITS
        /\ \A e \in redis[key].members : e.score # now
        /\ read' = [read EXCEPT ![p] = TRUE]
        /\ IF OverLimit(ZCard(purged), LIMITS[service].requests)
           THEN /\ redis' = [redis EXCEPT ![key] = purged]
                /\ \E retry_after \in
                        RetryAfter(ZRangeFirst(purged), service, now) :
                      last' = Returned("check_and_increment", service,
                                       user_id, <<FALSE, retry_after>>)
                /\ UNCHANGED admits
           ELSE /\ redis' = [redis EXCEPT ![key] =
                                Expire(added,
                                       LIMITS[service].window_seconds + 60,
                                       clock)]
                /\ last' = Returned("check_and_increment", service, user_id,
                                    Admitted)
                /\ admits' = Append(admits, clock)
        /\ UNCHANGED <<clock, LIMITS, pc, frame, run, denial, snapshot,
                       observe, skew, quotaVars, retryVars, gateVars,
                       outboundVars, clientVars>>

-----------------------------------------------------------------------------
(* RedisRateLimiter.get_current_usage and reset_limit *)

\* lines 143-171, with the read recorded in the window as a request is
GetCurrentUsageRecording(p, service, user_id, fail) ==
    LET key == GetKey(service, user_id)
        window_start == clock - WindowTicks(service)
        purged == ZRemRangeByScore(redis[key], 0, window_start)
    IN  /\ MayRun(p)
        /\ read' = [read EXCEPT ![p] = TRUE]
        /\ IF service \notin DOMAIN LIMITS
           THEN /\ last' = ReturnedUsage("get_current_usage", service,
                                         user_id, <<0, 0>>)
                /\ UNCHANGED <<redis, frame>>
           ELSE /\ UNCHANGED frame
                /\ IF fail \/ WrongType(redis[key])
                   THEN /\ last' = Raised("get_current_usage", service,
                                          user_id, "RedisError")
                        /\ UNCHANGED redis
                   ELSE /\ redis' = [redis EXCEPT ![key] =
                                        ZAdd(purged,
                                             Member(clock, user_id),
                                             clock)]
                        /\ last' = ReturnedUsage("get_current_usage",
                                                 service, user_id,
                                                 <<ZCard(purged),
                                                   LIMITS[service].requests>>)
        /\ UNCHANGED <<clock, LIMITS, pc, run, denial, snapshot, observe, besideLimiter>>

\* lines 143-171; the pipeline is outside any try, a store error propagates
GetCurrentUsage(p, service, user_id, fail) ==
    LET key == GetKey(service, user_id)
        window_start == clock - WindowTicks(service)
        purged == ZRemRangeByScore(redis[key], 0, window_start)
    IN  /\ MayRun(p)
        /\ read' = [read EXCEPT ![p] = TRUE]
        /\ IF service \notin DOMAIN LIMITS
           THEN /\ last' = ReturnedUsage("get_current_usage", service,
                                         user_id, <<0, 0>>)
                /\ UNCHANGED <<redis, frame>>
           ELSE /\ UNCHANGED frame
                /\ IF fail \/ WrongType(redis[key])
                   THEN /\ last' = Raised("get_current_usage", service,
                                          user_id, "RedisError")
                        /\ UNCHANGED redis
                   ELSE /\ redis' = [redis EXCEPT ![key] = purged]
                        /\ last' = ReturnedUsage("get_current_usage",
                                                 service, user_id,
                                                 <<ZCard(purged),
                                                   LIMITS[service].requests>>)
        /\ UNCHANGED <<clock, LIMITS, pc, run, denial, snapshot, observe, besideLimiter>>

\* reset_limit deleting the key of every caller of the service
ResetLimitOfService(p, service, user_id, fail) ==
    LET keys == {GetKey(service, u) : u \in Users}
    IN  /\ MayRun(p)
        /\ read' = [read EXCEPT ![p] = TRUE]
        /\ IF fail
           THEN /\ last' = Raised("reset_limit", service, user_id, "RedisError")
                /\ UNCHANGED <<redis, run>>
           ELSE /\ redis' = [k \in AllKeys |->
                                IF k \in keys THEN Absent ELSE redis[k]]
                /\ run' = [run EXCEPT ![<<service, user_id>>] = NoRun]
                /\ last' = ReturnedNone("reset_limit", service, user_id)
        /\ UNCHANGED <<clock, LIMITS, pc, frame, denial, snapshot, observe, besideLimiter>>

\* lines 173-177
ResetLimit(p, service, user_id, fail) ==
    LET key == GetKey(service, user_id)
    IN  /\ MayRun(p)
        /\ read' = [read EXCEPT ![p] = TRUE]
        /\ IF fail
           THEN /\ last' = Raised("reset_limit", service, user_id, "RedisError")
                /\ UNCHANGED <<redis, run>>
           ELSE /\ redis' = [redis EXCEPT ![key] = Absent]
                /\ run' = [run EXCEPT ![<<service, user_id>>] = NoRun]
                /\ last' = ReturnedNone("reset_limit", service, user_id)
        /\ UNCHANGED <<clock, LIMITS, pc, frame, denial, snapshot, observe, besideLimiter>>

-----------------------------------------------------------------------------
(* Upstream sync *)

SecondsPerDay == 86400

\* a reset time the provider reports: one that has passed, one still ahead
FutureReset == (MaxClock \div TicksPerSec) + 1

\* the response headers: x-rate-limit-limit, -remaining, -reset; a header
\* that is no number makes int() raise ValueError
Headers ==
    {[limit |-> 900, remaining |-> 0, reset |-> FutureReset, numeric |-> TRUE],
     [limit |-> 900, remaining |-> 1, reset |-> 0, numeric |-> TRUE],
     [limit |-> 900, remaining |-> 0, reset |-> 0, numeric |-> FALSE]}

\* timedelta.seconds of (reset_time - now): whole seconds within the day,
\* never negative
DeltaSeconds(reset, now) ==
    ((reset * TicksPerSec - now) \div TicksPerSec) % SecondsPerDay

\* parse_twitter_headers, lines 179-204: the limit_info, or none
ParseTwitterHeaders(headers, now) ==
    IF ~headers.numeric
    THEN {}
    ELSE {[limit |-> headers.limit, remaining |-> headers.remaining,
           reset |-> headers.reset,
           retry_after |-> Max(0, DeltaSeconds(headers.reset, now))]}

\* the write as it would be with the limiter's own key for reset_key
SyncWriteWindowKey(store, service, user_id, limit_info, t) ==
    [store EXCEPT ![GetKey(service, user_id)] =
        SetEx(limit_info.retry_after + 60, limit_info.reset, t)]

\* the write sync_with_twitter_headers makes, lines 226-232
SyncWrite(store, service, user_id, limit_info, t) ==
    [store EXCEPT ![ResetKey(service, user_id)] =
        SetEx(limit_info.retry_after + 60, limit_info.reset, t)]

\* sync_with_twitter_headers, lines 206-232
SyncWithTwitterHeaders(p, service, user_id, headers, fail) ==
    LET parsed == ParseTwitterHeaders(headers, clock)
    IN  /\ MayRun(p)
        /\ read' = [read EXCEPT ![p] = TRUE]
        /\ IF parsed = {}
           THEN /\ last' = ReturnedNone("sync_with_twitter_headers",
                                        service, user_id)
                /\ UNCHANGED <<redis, snapshot>>
           ELSE \E limit_info \in parsed :
                  IF fail
                  THEN /\ last' = Raised("sync_with_twitter_headers", service,
                                         user_id, "RedisError")
                       /\ UNCHANGED <<redis, snapshot>>
                  ELSE /\ redis' = SyncWrite(redis, service, user_id,
                                             limit_info, clock)
                       /\ last' = ReturnedNone("sync_with_twitter_headers",
                                               service, user_id)
                       /\ snapshot' =
                            IF "snapshot" \in observe
                            THEN [service |-> service, user_id |-> user_id,
                                  remaining |-> limit_info.remaining,
                                  reset |-> limit_info.reset, admitted |-> 0]
                            ELSE snapshot
        /\ UNCHANGED <<clock, LIMITS, pc, frame, run, denial, observe, besideLimiter>>

-----------------------------------------------------------------------------
(* Tier limits: backend/config.py *)

MonthlyQuotaBasic == 1000
MonthlyQuotaPro == 10000

Tiers == {"basic", "pro"}

\* TierLimits.get_tier_config(tier).get("monthly_quota")
GetMonthlyQuota(tier) ==
    IF tier = "pro" THEN MonthlyQuotaPro ELSE MonthlyQuotaBasic

-----------------------------------------------------------------------------
(* The durable store, for one tenant and the tenant's current period *)

\* the HTTP requests a behaviour receives, and how far below the quota of
\* its tier the tenant's counter may start
MaxRequests == 3
MaxHeadroom == 2

\* a store call answers, or the store answers with an error (APIError), or
\* the store cannot be reached (an exception that is not an APIError)
StoreOutcomes == {"ok", "APIError", "ConnectError"}

\* subscriptions and api_usage hold response.data of the select for the
\* tenant: a sequence of rows; a row of api_usage is its requests_used
EmptyDb == [subscriptions |-> <<>>, api_usage |-> <<>>, analyses |-> 0]

\* SupabaseClient.get_user_subscription: the latest row, or none
GetUserSubscription(store, err) ==
    IF err = "APIError" THEN <<>> ELSE store.subscriptions

NoUsage == [requests_used |-> 0, quota |-> 0, remaining |-> 0]

\* SupabaseClient.get_current_usage, when no exception leaves it
DbGetCurrentUsage(store, err) ==
    IF GetUserSubscription(store, err) = <<>> \/ err = "APIError"
    THEN NoUsage
    ELSE LET subscription == store.subscriptions[1]
             requests_used ==
                 IF store.api_usage # <<>> THEN store.api_usage[1] ELSE 0
             quota == GetMonthlyQuota(subscription.tier)
         IN  [requests_used |-> requests_used,
              quota |-> quota,
              remaining |-> Max(0, quota - requests_used)]

\* SupabaseClient.check_quota
CheckQuota(store, err) == DbGetCurrentUsage(store, err).remaining > 0

\* the stored procedure increment_api_usage(p_user_id, p_count): one
\* statement that adds p_count to requests_used of the tenant's rows
IncrementApiUsage(rows, p_count) ==
    [i \in DOMAIN rows |-> rows[i] + p_count]

\* RateLimiter.check_monthly_quota: (quota_exceeded, quota_info)
FailOpenQuota == 1000

CheckMonthlyQuota(store, err) ==
    IF err = "ConnectError"
    THEN <<FALSE, [requests_used |-> 0, quota |-> FailOpenQuota,
                   remaining |-> FailOpenQuota]>>
    ELSE LET usage == DbGetCurrentUsage(store, err)
         IN  <<usage.remaining <= 0, usage>>

-----------------------------------------------------------------------------
(* An authenticated POST /analyze or /scans: RateLimitMiddleware.dispatch, *)
(* then trigger_analysis or create_scan                                    *)

IdleHandler == [pc |-> "idle", exists |-> FALSE]

NoQuotaCheck ==
    [called |-> FALSE, quota_exceeded |-> FALSE, quota_info |-> NoUsage,
     failed |-> FALSE]

NoReply == [by |-> "none", status |-> 0, detail |-> "", failed |-> FALSE]

GateQuotaDetail == "Monthly quota exceeded. Upgrade to Pro for higher limits."
RouteQuotaDetail ==
    "Monthly API quota exceeded. Upgrade to Pro for higher limits."

Reply(by, status, detail, failed) ==
    [by |-> by, status |-> status, detail |-> detail, failed |-> failed]

At(p, where) == handler[p].pc = where

Goto(p, where) == handler' = [handler EXCEPT ![p].pc = where]

\* the response leaves; the process is free for the next request
Respond(p, by, status, detail, failed) ==
    /\ reply' = Reply(by, status, detail, failed)
    /\ handler' = [handler EXCEPT ![p] = IdleHandler]

\* except Exception in trigger_analysis
RouteError(p) ==
    Respond(p, "trigger_analysis", 500, "Failed to trigger analysis", TRUE)

\* dispatch: the monthly quota of request.state.user_id
GateQuota(p, err) ==
    /\ At(p, "idle")
    /\ requests < MaxRequests
    /\ requests' = requests + 1
    /\ LET result == CheckMonthlyQuota(db, err)
       IN  /\ quota_check' = [called |-> TRUE,
                              quota_exceeded |-> result[1],
                              quota_info |-> result[2],
                              failed |-> err # "ok"]
           /\ IF result[1]
              THEN Respond(p, "dispatch", 429, GateQuotaDetail, err # "ok")
              ELSE /\ Goto(p, "route")
                   /\ UNCHANGED reply
    /\ UNCHANGED <<db, besideQuota>>

\* trigger_analysis: if not database.check_quota(user_id)
RouteCheckQuota(p, err) ==
    /\ At(p, "route")
    /\ IF err = "ConnectError"
       THEN RouteError(p)
       ELSE IF ~CheckQuota(db, err)
       THEN Respond(p, "trigger_analysis", 429, RouteQuotaDetail, err # "ok")
       ELSE /\ Goto(p, "subscription")
            /\ UNCHANGED reply
    /\ UNCHANGED <<db, quota_check, requests, besideQuota>>

\* trigger_analysis: the subscription must be active
RouteSubscription(p, err) ==
    /\ At(p, "subscription")
    /\ LET subscription == GetUserSubscription(db, err)
       IN  IF err = "ConnectError"
           THEN RouteError(p)
           ELSE IF subscription = <<>> \/ subscription[1].status # "active"
           THEN Respond(p, "trigger_analysis", 402,
                        "Active subscription required", err # "ok")
           ELSE /\ Goto(p, "increment")
                /\ UNCHANGED reply
    /\ UNCHANGED <<db, quota_check, requests, besideQuota>>

\* increment_usage: the subscription and the select of the tenant's row;
\* the caller ignores the False that an APIError makes it return
IncrementSelect(p, err) ==
    /\ At(p, "increment")
    /\ IF err = "ConnectError"
       THEN RouteError(p)
       ELSE IF GetUserSubscription(db, err) = <<>>
       THEN /\ Goto(p, "create")
            /\ UNCHANGED reply
       ELSE /\ handler' = [handler EXCEPT
                           ![p] = [pc |-> "write",
                                   exists |-> db.api_usage # <<>>]]
            /\ UNCHANGED reply
    /\ UNCHANGED <<db, quota_check, requests, besideQuota>>

\* increment_usage: the stored procedure for a row that was there, an
\* insert of a row with requests_used = count otherwise
IncrementWrite(p, err) ==
    /\ At(p, "write")
    /\ IF err = "ConnectError"
       THEN /\ RouteError(p)
            /\ UNCHANGED db
       ELSE /\ handler' = [handler EXCEPT ![p] = [pc |-> "create",
                                                  exists |-> FALSE]]
            /\ UNCHANGED reply
            /\ IF err = "APIError"
               THEN UNCHANGED db
               ELSE IF handler[p].exists
               THEN db' = [db EXCEPT
                           !.api_usage = IncrementApiUsage(db.api_usage, 1)]
               ELSE db' = [db EXCEPT !.api_usage = Append(db.api_usage, 1)]
    /\ UNCHANGED <<quota_check, requests, besideQuota>>

\* create_analysis and the 202 that answers the request
CreateAnalysis(p, err) ==
    /\ At(p, "create")
    /\ IF err = "ConnectError"
       THEN /\ RouteError(p)
            /\ UNCHANGED db
       ELSE IF err = "APIError"
       THEN /\ Respond(p, "trigger_analysis", 500,
                       "Failed to create analysis", TRUE)
            /\ UNCHANGED db
       ELSE /\ Respond(p, "trigger_analysis", 202, "", FALSE)
            /\ db' = [db EXCEPT !.analyses = db.analyses + 1]
    /\ UNCHANGED <<quota_check, requests, besideQuota>>

QuotaAtRest ==
    /\ handler = [p \in Procs |-> IdleHandler]
    /\ quota_check = NoQuotaCheck
    /\ reply = NoReply
    /\ requests = 0

-----------------------------------------------------------------------------
(* exponential_backoff: the wrapper around a function that may be rejected *)

\* the largest max_retries a wrapper is built with; the smallest is -1, for
\* which range(max_retries + 1) is empty
MaxRetries == 2

BaseDelays == {1, 2}

\* the retry_after a RateLimitExceeded carries, in seconds
RetryAfters == {1, 3, 8}

\* the Retry-After header of a 429 response: none, a number of seconds, or
\* an HTTP date, on which int() raises ValueError
RetryAfterHeaders ==
    {[given |-> FALSE, numeric |-> FALSE, seconds |-> 0],
     [given |-> TRUE, numeric |-> FALSE, seconds |-> 0]} \cup
    {[given |-> TRUE, numeric |-> TRUE, seconds |-> r] : r \in RetryAfters}

RECURSIVE Pow2(_)
Pow2(n) == IF n <= 0 THEN 1 ELSE 2 * Pow2(n - 1)

Min(a, b) == IF a <= b THEN a ELSE b

\* base_delay * (2 ** attempt)
Backoff(base_delay, attempt) == base_delay * Pow2(attempt)

NoRejection == [kind |-> "none", reported |-> FALSE, retry_after |-> 0]

IdleWrapper ==
    [pc |-> "idle", max_retries |-> 0, base_delay |-> 1, attempt |-> 0,
     calls |-> 0, rejection |-> NoRejection, delay |-> 0,
     outcome |-> "none", raised |-> NoRejection, all_rejected |-> TRUE,
     cancelled |-> FALSE, coroutine |-> FALSE, escaped |-> "none"]

\* line 282, with the test a slip would write
LastAttemptOffByOne(attempt, max_retries) == attempt > max_retries

\* if attempt == max_retries
LastAttempt(attempt, max_retries) == attempt = max_retries

\* the durations the wrapper may pass to time.sleep after a
\* RateLimitExceeded: line 286
DelaysAfterRateLimit(base_delay, attempt, retry_after) ==
    {Min(Backoff(base_delay, attempt), retry_after)}

\* the durations the wrapper may pass to time.sleep after an HTTP 429:
\* line 298; the header must be a number
DelaysAfter429(base_delay, attempt, header) ==
    {IF header.given THEN header.seconds ELSE Backoff(base_delay, attempt)}

\* the wrapper leaves with an exception
WrapperRaises(w, kind, retry_after) ==
    [w EXCEPT !.pc = "done", !.outcome = "raised",
              !.raised = [kind |-> kind, reported |-> TRUE,
                          retry_after |-> retry_after]]

\* for attempt in range(max_retries + 1); return None after the loop
Loop ==
    /\ wrapper.pc = "loop"
    /\ wrapper' =
         IF wrapper.attempt < wrapper.max_retries + 1
         THEN [wrapper EXCEPT !.pc = "call"]
         ELSE [wrapper EXCEPT !.pc = "done", !.outcome = "returned_none"]
    /\ UNCHANGED besideRetry

\* return func(*args, **kwargs)
CallReturns ==
    /\ wrapper.pc = "call"
    /\ wrapper' = [wrapper EXCEPT !.pc = "done", !.calls = @ + 1,
                                  !.outcome = "returned",
                                  !.all_rejected = FALSE]
    /\ UNCHANGED besideRetry

\* except RateLimitExceeded as e; calling a coroutine function runs none
\* of its body, so the call of one raises nothing
CallRaisesRateLimit(retry_after) ==
    /\ wrapper.pc = "call"
    /\ ~wrapper.coroutine
    /\ LET w == [wrapper EXCEPT
                    !.calls = @ + 1,
                    !.rejection = [kind |-> "RateLimitExceeded",
                                   reported |-> TRUE,
                                   retry_after |-> retry_after]]
       IN  IF LastAttempt(w.attempt, w.max_retries)
           THEN wrapper' = WrapperRaises(w, "RateLimitExceeded", retry_after)
           ELSE \E delay \in DelaysAfterRateLimit(w.base_delay, w.attempt,
                                                  retry_after) :
                  wrapper' = [w EXCEPT !.pc = "sleep", !.delay = delay]
    /\ UNCHANGED besideRetry

\* except Exception as e, with e.response.status_code == 429
CallRaises429(header) ==
    /\ wrapper.pc = "call"
    /\ ~wrapper.coroutine
    /\ LET w == [wrapper EXCEPT !.calls = @ + 1, !.all_rejected = FALSE]
       IN  IF LastAttempt(w.attempt, w.max_retries)
           THEN wrapper' = WrapperRaises(w, "HTTP429", header.seconds)
           ELSE IF header.given /\ ~header.numeric
           THEN wrapper' = WrapperRaises(w, "ValueError", 0)
           ELSE \E delay \in DelaysAfter429(w.base_delay, w.attempt, header) :
                  wrapper' = [w EXCEPT
                      !.pc = "sleep", !.delay = delay,
                      !.rejection = [kind |-> "HTTP429",
                                     reported |-> header.given,
                                     retry_after |-> header.seconds]]
    /\ UNCHANGED besideRetry

\* except Exception as e, any other exception: raise
CallRaisesOther ==
    /\ wrapper.pc = "call"
    /\ ~wrapper.coroutine
    /\ wrapper' = WrapperRaises([wrapper EXCEPT !.calls = @ + 1,
                                                !.all_rejected = FALSE],
                                "Exception", 0)
    /\ UNCHANGED besideRetry

\* time.sleep returns; the loop goes on with the next attempt
Sleep ==
    /\ wrapper.pc = "sleep"
    /\ wrapper' = [wrapper EXCEPT !.pc = "loop", !.attempt = @ + 1]
    /\ UNCHANGED besideRetry

\* the caller awaits the coroutine the wrapper returned: the body runs now,
\* outside the wrapper, and what it raises goes to the caller
AwaitRaises(kind) ==
    /\ wrapper.pc = "done"
    /\ wrapper.coroutine
    /\ wrapper.outcome = "returned"
    /\ wrapper.escaped = "none"
    /\ wrapper' = [wrapper EXCEPT !.escaped = kind]
    /\ UNCHANGED besideRetry

\* the enclosing request or task is cancelled while the wrapper is inside
\* time.sleep: the call blocks its thread until the delay is over, and
\* nothing in the wrapper looks at the cancellation
Cancel ==
    /\ wrapper.pc = "sleep"
    /\ ~wrapper.cancelled
    /\ wrapper' = [wrapper EXCEPT !.cancelled = TRUE]
    /\ UNCHANGED besideRetry

-----------------------------------------------------------------------------
(* The HTTP path: RateLimiter.is_rate_limited and RateLimitMiddleware      *)

\* settings.rate_limit_per_minute and settings.rate_limit_per_hour, as the
\* modelled deployment sets them
RateLimitPerMinute == 2
RateLimitPerHour == 2

MinuteWindow == 60
HourWindow == 3600

\* request.url.path, a sequence of segments
AnalyzePath == <<"api", "analyze">>
AnalysesPath == <<"api", "analyses">>
HealthzPath == <<"healthz">>
HealthzDbPath == <<"healthz", "db">>
Paths == {AnalyzePath, AnalysesPath, HealthzPath, HealthzDbPath}

\* the routes whose handlers count against the monthly quota
BillablePaths == {AnalyzePath}

EXEMPT_ROUTES ==
    {<<"docs">>, <<"redoc">>, <<"openapi.json">>, <<"healthz">>,
     <<"api", "webhooks">>}

StartsWith(path, route) ==
    /\ Len(route) <= Len(path)
    /\ SubSeq(path, 1, Len(route)) = route

\* _is_exempt with equality in place of startswith
IsExemptExact(path) == path \in EXEMPT_ROUTES

\* RateLimitMiddleware._is_exempt
IsExempt(path) == \E route \in EXEMPT_ROUTES : StartsWith(path, route)

\* request.state.user_id: none for an anonymous request
GateUsers == {<<>>, Str("a")}

\* RateLimitMiddleware._get_identifier
GetIdentifier(user_id) ==
    IF user_id # <<>>
    THEN Str("user") \o Colon \o user_id
    ELSE Str("ip") \o Colon \o Str("sha256")

\* redis_key of is_rate_limited for the key dispatch passes
GateKey(tier, identifier, window_seconds) ==
    Str("ratelimit") \o Colon \o Str(tier) \o Colon \o identifier
        \o Colon \o Str(window_seconds)

MinuteKeyOf(user_id) ==
    GateKey("minute", GetIdentifier(user_id), MinuteWindow)

GateKeys ==
    {GateKey("minute", GetIdentifier(u), MinuteWindow) : u \in GateUsers} \cup
    {GateKey("hour", GetIdentifier(u), HourWindow) : u \in GateUsers}

\* int(datetime.now(timezone.utc).timestamp())
CurrentTime == IntSeconds(clock)

NoInfo ==
    [requests |-> 0, limit |-> 0, remaining |-> 0, reset_at |-> 0,
     window_seconds |-> 0]

\* line 95, with the comparison a slip would write
IsLimitedOffByOne(current_requests, limit) == current_requests > limit

IsLimited(current_requests, limit) == current_requests >= limit

\* is_rate_limited once connected, at second current_time: the decision,
\* the info and the value the key is left with; fail: the pipeline raises
IsRateLimitedAt(store, redis_key, limit, window_seconds, fail, current_time) ==
    LET window_start == current_time - window_seconds
        removed == ZRemRangeByScore(store[redis_key], 0, window_start)
        current_requests == ZCard(removed)
        added == ZAdd(removed, Str(current_time), current_time)
    IN  IF fail
        THEN [is_limited |-> FALSE,
              info |-> [requests |-> 0, limit |-> limit,
                        remaining |-> limit,
                        reset_at |-> current_time + window_seconds,
                        window_seconds |-> window_seconds],
              value |-> store[redis_key]]
        ELSE [is_limited |-> IsLimited(current_requests, limit),
              info |-> [requests |-> current_requests, limit |-> limit,
                        remaining |-> Max(0, limit - current_requests),
                        reset_at |-> current_time + window_seconds,
                        window_seconds |-> window_seconds],
              value |-> Expire(added, window_seconds, clock)]

IsRateLimited(store, redis_key, limit, window_seconds, fail) ==
    IsRateLimitedAt(store, redis_key, limit, window_seconds, fail,
                    CurrentTime)

IdleRequest ==
    [pc |-> "idle", path |-> <<>>, user_id |-> <<>>, rate_info |-> NoInfo,
     quota_info |-> NoUsage, has_quota_info |-> FALSE, touched |-> {},
     limited |-> {}, quota_failed |-> FALSE]

NoHeaders == [name \in {} |-> <<>>]

\* a response: by whom, and for which request; tier names the check that
\* denied; touched, the stores the request read or wrote; limited, the
\* checks that found it over their limit
NoResponse ==
    [by |-> "none", status |-> 0, detail |-> "", headers |-> NoHeaders,
     path |-> <<>>, user_id |-> <<>>, tier |-> "none", touched |-> {},
     limited |-> {}, quota_failed |-> FALSE]

\* raise HTTPException(429, detail, headers) in dispatch
Deny(r, tier, detail, headers) ==
    [by |-> "dispatch", status |-> 429, detail |-> detail,
     headers |-> headers, path |-> r.path, user_id |-> r.user_id,
     tier |-> tier, touched |-> r.touched, limited |-> r.limited,
     quota_failed |-> r.quota_failed]

\* the headers of a minute or hour denial
RateLimitHeaders(info) ==
    [name \in {"X-RateLimit-Limit", "X-RateLimit-Remaining",
               "X-RateLimit-Reset", "Retry-After"} |->
        CASE name = "X-RateLimit-Limit" -> Str(info.limit)
          [] name = "X-RateLimit-Remaining" -> Str(info.remaining)
          [] name = "X-RateLimit-Reset" -> Str(info.reset_at)
          [] name = "Retry-After" -> Str(info.window_seconds)]

\* the headers of a quota denial; period_end is not modelled, X-Quota-Reset
\* is shown empty
QuotaHeaders(quota_info) ==
    [name \in {"X-Quota-Limit", "X-Quota-Remaining", "X-Quota-Reset"} |->
        CASE name = "X-Quota-Limit" -> Str(quota_info.quota)
          [] name = "X-Quota-Remaining" -> Str(0)
          [] name = "X-Quota-Reset" -> <<>>]

\* the headers dispatch adds to the response of the handler
PassedHeaders(r) ==
    [name \in {"X-RateLimit-Limit", "X-RateLimit-Remaining",
               "X-RateLimit-Reset"} \cup
              (IF r.has_quota_info
               THEN {"X-Quota-Limit", "X-Quota-Remaining", "X-Quota-Used"}
               ELSE {}) |->
        CASE name = "X-RateLimit-Limit" -> Str(r.rate_info.limit)
          [] name = "X-RateLimit-Remaining" -> Str(r.rate_info.remaining)
          [] name = "X-RateLimit-Reset" -> Str(r.rate_info.reset_at)
          [] name = "X-Quota-Limit" -> Str(r.quota_info.quota)
          [] name = "X-Quota-Remaining" -> Str(r.quota_info.remaining)
          [] name = "X-Quota-Used" -> Str(r.quota_info.requests_used)]

\* what a call of is_rate_limited may meet: the store answers, the pipeline
\* raises, or the lazy connect raises
GateOutcomes == {"ok", "error", "connect_error"}

\* where dispatch goes after a check, with a test that lets a request over
\* its minute limit through to the hour check
AfterCheckNoStop(tier, is_limited, user_id) ==
    IF tier = "minute" THEN "hour"
    ELSE IF is_limited THEN "deny"
    ELSE IF user_id # <<>> THEN "quota" ELSE "handler"

\* where dispatch goes after the minute and the hour check
AfterCheck(tier, is_limited, user_id) ==
    IF is_limited THEN "deny"
    ELSE IF tier = "minute" THEN "hour"
    ELSE IF user_id # <<>> THEN "quota" ELSE "handler"

Unhandled(r) ==
    [NoResponse EXCEPT !.by = "dispatch", !.status = 500, !.path = r.path,
                       !.user_id = r.user_id, !.touched = r.touched,
                       !.limited = r.limited]

\* dispatch: the exempt routes, the identifier
DispatchBegin(p, path, user_id) ==
    /\ request[p].pc = "idle"
    /\ request' = [request EXCEPT ![p] =
                     [IdleRequest EXCEPT
                         !.pc = IF IsExempt(path) THEN "handler" ELSE "minute",
                         !.path = path, !.user_id = user_id]]
    /\ UNCHANGED <<windows, response, http_redis, besideGate>>

\* one call of is_rate_limited by dispatch, and the raise that follows it
DispatchCheck(p, tier, limit, window_seconds, detail, outcome) ==
    LET r == request[p]
        redis_key == GateKey(tier, GetIdentifier(r.user_id), window_seconds)
        result == IsRateLimited(windows, redis_key, limit, window_seconds,
                                outcome = "error")
        seen == [r EXCEPT
                   !.touched = @ \cup {tier},
                   !.limited = @ \cup (IF result.is_limited
                                       THEN {tier} ELSE {}),
                   !.rate_info = IF tier = "minute" THEN result.info ELSE @]
        next == AfterCheck(tier, result.is_limited, r.user_id)
    IN  /\ r.pc = tier
        /\ outcome = "connect_error" => http_redis = "none"
        /\ IF outcome = "connect_error"
           THEN /\ response' = Unhandled(r)
                /\ request' = [request EXCEPT ![p] = IdleRequest]
                /\ UNCHANGED <<windows, http_redis>>
           ELSE /\ http_redis' = "connected"
                /\ windows' = [windows EXCEPT ![redis_key] = result.value]
                /\ IF next = "deny"
                   THEN /\ response' = Deny(seen, tier, detail,
                                            RateLimitHeaders(result.info))
                        /\ request' = [request EXCEPT ![p] = IdleRequest]
                   ELSE /\ request' = [request EXCEPT
                                          ![p] = [seen EXCEPT !.pc = next]]
                        /\ UNCHANGED response
        /\ UNCHANGED besideGate

\* dispatch: the per-minute limit
DispatchMinute(p, outcome) ==
    DispatchCheck(p, "minute", RateLimitPerMinute, MinuteWindow,
                  "Rate limit exceeded. Please try again later.", outcome)

\* dispatch: the hourly limit
DispatchHour(p, outcome) ==
    DispatchCheck(p, "hour", RateLimitPerHour, HourWindow,
                  "Hourly rate limit exceeded. Please try again later.",
                  outcome)

\* dispatch: the monthly quota of an authenticated request
DispatchQuota(p, err) ==
    LET r == request[p]
        result == CheckMonthlyQuota(db, err)
        seen == [r EXCEPT !.touched = @ \cup {"quota"},
                          !.limited = @ \cup (IF result[1]
                                              THEN {"quota"} ELSE {}),
                          !.quota_failed = err # "ok"]
    IN  /\ r.pc = "quota"
        /\ IF result[1]
           THEN /\ response' = Deny(seen, "quota", GateQuotaDetail,
                                    QuotaHeaders(result[2]))
                /\ request' = [request EXCEPT ![p] = IdleRequest]
           ELSE /\ request' = [request EXCEPT ![p] =
                                 [seen EXCEPT !.pc = "handler",
                                              !.quota_info = result[2],
                                              !.has_quota_info = TRUE]]
                /\ UNCHANGED response
        /\ UNCHANGED <<windows, http_redis, besideGate>>

\* dispatch: call_next, and the headers added to the handler's response
CallNext(p) ==
    LET r == request[p]
    IN  /\ r.pc = "handler"
        /\ response' =
             [by |-> "handler", status |-> 200, detail |-> "",
              headers |-> IF IsExempt(r.path)
                          THEN NoHeaders ELSE PassedHeaders(r),
              path |-> r.path, user_id |-> r.user_id, tier |-> "none",
              touched |-> r.touched, limited |-> r.limited,
              quota_failed |-> r.quota_failed]
        /\ request' = [request EXCEPT ![p] = IdleRequest]
        /\ UNCHANGED <<windows, http_redis, besideGate>>

GateProcs == {1}

GateAtRest ==
    /\ windows = [k \in GateKeys |-> Absent]
    /\ request = [p \in Procs |-> IdleRequest]
    /\ response = NoResponse
    /\ http_redis = "none"

-----------------------------------------------------------------------------
(* An outbound call of a task: fetch_twitter_timeline, call_anthropic_api *)

\* @task(retries=2): a run of the function that raises is followed by
\* another run, at most this many times
TaskRetries == 2

OutboundFunctions == {"fetch_twitter_timeline", "call_anthropic_api"}

\* only fetch_twitter_timeline folds the provider's headers in
HasSync(function) == function = "fetch_twitter_timeline"

\* what check_and_increment returns to the function: (True, 0) with the
\* request recorded, (False, retry_after), or (True, 0) after a store error
\* with nothing recorded
LocalChecks == {"admitted", "denied", "store_error"}

\* what client.get / client.post gives: a response with a status code, or
\* an exception of the transport
HttpResults == {200, 429, 500, -1}

\* one run of the function: events, the steps it has taken, in order;
\* checks, sent, slots: the local checks asked, the HTTP requests sent and
\* the requests recorded in the window since the call began
IdleOutbound ==
    [pc |-> "idle", function |-> "", attempt |-> 0, events |-> <<>>,
     allowed |-> FALSE, status |-> 0, checks |-> 0, sent |-> 0,
     slots |-> 0, outcome |-> "none"]

\* if not allowed: raise RateLimitExceeded, with the test left out
AfterLocalCheckIgnored(result) == "http"

\* if not allowed: raise RateLimitExceeded
AfterLocalCheck(result) == IF result = "denied" THEN "raised" ELSE "http"

\* the task is called
OutboundCall(function) ==
    /\ outbound.pc \in {"idle", "done"}
    /\ outbound' = [IdleOutbound EXCEPT !.pc = "check",
                                        !.function = function]
    /\ UNCHANGED besideOutbound

\* rate_limiter.check_and_increment(service, user_id) in the function body
OutboundCheck(result) ==
    /\ outbound.pc = "check"
    /\ outbound' =
         [outbound EXCEPT
            !.pc = AfterLocalCheck(result),
            !.events = Append(@, "check"),
            !.allowed = result # "denied",
            !.checks = @ + 1,
            !.slots = IF result = "admitted" THEN @ + 1 ELSE @]
    /\ UNCHANGED besideOutbound

\* await client.get(...) / client.post(...)
OutboundHttp(result) ==
    /\ outbound.pc = "http"
    /\ outbound' =
         [outbound EXCEPT
            !.pc = IF result = -1 THEN "raised"
                   ELSE IF HasSync(outbound.function) THEN "sync"
                   ELSE "decide",
            !.events = Append(@, "http"),
            !.status = result,
            !.sent = @ + 1]
    /\ UNCHANGED besideOutbound

\* rate_limiter.sync_with_twitter_headers(...); fail: the store raises
OutboundSync(fail) ==
    /\ outbound.pc = "sync"
    /\ outbound' = [outbound EXCEPT
                      !.pc = IF fail THEN "raised" ELSE "decide",
                      !.events = Append(@, "sync")]
    /\ UNCHANGED besideOutbound

\* if response.status_code == 429: raise RateLimitExceeded;
\* response.raise_for_status(); return
OutboundDecide ==
    /\ outbound.pc = "decide"
    /\ outbound' = [outbound EXCEPT
                      !.pc = IF outbound.status = 200
                             THEN "done" ELSE "raised",
                      !.events = Append(@, "decide"),
                      !.outcome = IF outbound.status = 200
                                  THEN "returned" ELSE @]
    /\ UNCHANGED besideOutbound

\* the run raised: the task runs the function again, or fails
OutboundRetry ==
    /\ outbound.pc = "raised"
    /\ outbound' =
         IF outbound.attempt < TaskRetries
         THEN [outbound EXCEPT !.pc = "check", !.attempt = @ + 1,
                               !.events = <<>>, !.allowed = FALSE,
                               !.status = 0]
         ELSE [outbound EXCEPT !.pc = "done", !.outcome = "raised"]
    /\ UNCHANGED besideOutbound

OutboundAtRest == outbound = IdleOutbound

-----------------------------------------------------------------------------
(* One client of the HTTP path: its requests reach the per-minute check of *)
(* dispatch one after the other, seconds or a good part of a minute apart  *)

\* the requests the client sends
MaxSends == 5

\* admitted: the seconds at which a request of the client was not limited,
\* one for each such request; is_limited, requests: what the last call of
\* is_rate_limited returned
IdleClient ==
    [sent |-> 0, admitted |-> <<>>, is_limited |-> FALSE, requests |-> 0]

ClientAtRest == client = IdleClient

\* the client's requests that were not limited and are inside the window
\* that ends at second current_time
AdmittedInWindow(current_time, window_seconds) ==
    SelectSeq(client.admitted,
              LAMBDA t : t > current_time - window_seconds)

\* dispatch, lines 177-197: a request of the client reaches
\* is_rate_limited("minute:<identifier>", rate_limit_per_minute, 60)
ClientRequest(user_id, fail) ==
    LET redis_key == MinuteKeyOf(user_id)
        result == IsRateLimited(windows, redis_key, RateLimitPerMinute,
                                MinuteWindow, fail)
    IN  /\ client.sent < MaxSends
        /\ http_redis' = "connected"
        /\ windows' = [windows EXCEPT ![redis_key] = result.value]
        /\ client' = [sent |-> client.sent + 1,
                      admitted |-> IF result.is_limited
                                   THEN client.admitted
                                   ELSE Append(client.admitted, CurrentTime),
                      is_limited |-> result.is_limited,
                      requests |-> result.info.requests]
        /\ UNCHANGED <<request, response, limiterVars, quotaVars, retryVars,
                       outboundVars, skewVars>>

-----------------------------------------------------------------------------
(* The clock *)

\* the seconds the modelled behaviours last, and the seconds that pass
\* between two calls
Horizon == 64
Gaps == {20, 31}

\* the store at time t: a key whose time to live has run out is gone
Expired(store, t) ==
    [k \in DOMAIN store |->
        IF store[k].ttl >= 0 /\ store[k].ttl <= t THEN Absent ELSE store[k]]

\* gap seconds pass
Wait(gap) ==
    /\ clock + gap * TicksPerSec <= Horizon * TicksPerSec
    /\ clock' = clock + gap * TicksPerSec
    /\ redis' = Expired(redis, clock')
    /\ windows' = Expired(windows, clock')
    /\ read' = [p \in Procs |-> FALSE]
    /\ UNCHANGED <<LIMITS, pc, frame, last, run, denial, snapshot, observe,
                   request, response, http_redis, quotaVars, retryVars,
                   outboundVars, clientVars, skewVars>>

Tick ==
    /\ clock < MaxClock
    /\ clock' = clock + 1
    /\ read' = [p \in Procs |-> FALSE]
    /\ UNCHANGED <<redis, LIMITS, pc, frame, last, run, denial, snapshot,
                   observe, besideLimiter>>

-----------------------------------------------------------------------------
(* Specifications of the task-path limiter *)

InitLimiter ==
    /\ clock = 0
    /\ redis = [k \in AllKeys |-> Absent]
    /\ LIMITS = InitialLimits
    /\ pc = [p \in Procs |-> "idle"]
    /\ frame = [p \in Procs |-> IdleFrame]
    /\ last = NoReturn
    /\ run = [pair \in Pairs |-> NoRun]
    /\ denial = [pair \in Pairs |-> -1]
    /\ snapshot = NoSnapshot
    /\ read = [p \in Procs |-> FALSE]
    /\ QuotaAtRest
    /\ GateAtRest
    /\ OutboundAtRest
    /\ ClientAtRest
    /\ admits = <<>>

\* the steps of check_and_increment, for callers P and arguments S, U
Checks(P, S, U) ==
    \/ \E p \in P, service \in S, user_id \in U :
         \/ CheckUnknown(p, service, user_id)
         \/ CheckBegin(p, service, user_id)
    \/ \E p \in P, fail \in BOOLEAN :
         \/ CheckCount(p, fail)
         \/ CheckDeny(p, fail)
         \/ CheckAdd(p, fail)

Reads(P, S, U) ==
    \E p \in P, service \in S, user_id \in U, fail \in BOOLEAN :
        GetCurrentUsage(p, service, user_id, fail)

Resets(P, S, U) ==
    \E p \in P, service \in S, user_id \in U, fail \in BOOLEAN :
        ResetLimit(p, service, user_id, fail)

Syncs(P, S, U) ==
    \E p \in P, service \in S, user_id \in U, fail \in BOOLEAN,
       headers \in Headers :
        SyncWithTwitterHeaders(p, service, user_id, headers, fail)

\* Spec: the worker processes share the store and call for one user
Init ==
    /\ skew = NoSkew
    /\ InitLimiter
    /\ db = EmptyDb
    /\ wrapper = IdleWrapper
    /\ observe = {"denial"}

Next ==
    \/ Tick
    \/ Checks(Procs, Services, {Str("a")})
    \/ Reads(Procs, Services, {Str("a")})
    \/ Resets(Procs, Services, {Str("a")})

Spec == Init /\ [][Next]_vars

\* SpecSeq: one caller makes one call after the other, for any user
InitSeq ==
    /\ skew = NoSkew
    /\ InitLimiter
    /\ db = EmptyDb
    /\ wrapper = IdleWrapper
    /\ observe = {"run"}

NextSeq ==
    \/ Tick
    \/ Checks({1}, Services, Users)
    \/ Reads({1}, Services, Users)
    \/ Resets({1}, Services, Users)

SpecSeq == InitSeq /\ [][NextSeq]_vars

\* SpecSync: one caller checks and folds the provider's headers in, for one
\* user
InitSync ==
    /\ skew = NoSkew
    /\ InitLimiter
    /\ db = EmptyDb
    /\ wrapper = IdleWrapper
    /\ observe = {"snapshot"}

NextSync ==
    \/ Tick
    \/ Checks({1}, Services, {Str("a")})
    \/ Syncs({1}, Services, {Str("a")})

SpecSync == InitSync /\ [][NextSync]_vars

\* SpecOps: one caller uses every operation of the limiter, for one user
InitOps ==
    /\ skew = NoSkew
    /\ InitLimiter
    /\ db = EmptyDb
    /\ wrapper = IdleWrapper
    /\ observe = {}

NextOps ==
    \/ Tick
    \/ Checks({1}, Services, {Str("a")})
    \/ Reads({1}, Services, {Str("a")})
    \/ Resets({1}, Services, {Str("a")})
    \/ Syncs({1}, Services, {Str("a")})

SpecOps == InitOps /\ [][NextOps]_vars

-----------------------------------------------------------------------------
(* Properties of the task-path limiter *)

KnownPairs == {pair \in Pairs : pair[1] \in DOMAIN LIMITS}

LastIsCheck == last.op = "check_and_increment"

LastAllowed == last.value[1]

LastRetryAfter == last.value[2]

\* the entries of a key's window that have not expired at the clock
Unexpired(pair) ==
    {e \in redis[GetKey(pair[1], pair[2])].members :
        e.score > clock - WindowTicks(pair[1])}

\* the call that returned last was number index of a run of one caller's
\* calls to one key, all inside one window
InRun == LastIsCheck /\ last.service \in DOMAIN LIMITS /\ last.index > 0

RunRule ==
    /\ last.index <= LIMITS[last.service].requests => last.value = Admitted
    /\ last.index = LIMITS[last.service].requests + 1 =>
           ~LastAllowed /\ LastRetryAfter > 0

\* C1 as claimed: in a sequence of sequential calls to one key inside one
\* window, the first max_requests calls return (True, 0) and call number
\* max_requests + 1 returns (False, retry_after > 0).
C1_FirstMaxAdmittedNextDenied == InRun => RunRule

\* C1 amended: the same, for a sequence during which the store answered
\* every call (a call that meets a store error is admitted and not recorded).
C1_FirstMaxAdmittedNextDenied_StoreUp == (InRun /\ last.clean) => RunRule

C1_Witness ==
    /\ InRun /\ last.clean
    /\ last.index = LIMITS[last.service].requests + 1
    /\ ~LastAllowed

\* C2: in every interleaving of concurrent check_and_increment calls on one
\* key, the number of unexpired entries of the key's window never exceeds
\* max_requests.
C2_WindowNeverOverfull ==
    \A pair \in KnownPairs :
        Cardinality(Unexpired(pair)) <= LIMITS[pair[1]].requests

\* C4: a call made retry_after seconds or more after a denial of its key,
\* with no admission to the key in between, is admitted.
C4_AdmittedAfterRetryAfter == (LastIsCheck /\ last.due) => LastAllowed

\* a step of a call on the (service, user_id) pair
StepOn(pair) ==
    \E p \in Procs, fail \in BOOLEAN :
        \/ CheckUnknown(p, pair[1], pair[2])
        \/ CheckBegin(p, pair[1], pair[2])
        \/ /\ <<frame[p].service, frame[p].user_id>> = pair
           /\ CheckCount(p, fail) \/ CheckDeny(p, fail) \/ CheckAdd(p, fail)
        \/ GetCurrentUsage(p, pair[1], pair[2], fail)
        \/ ResetLimit(p, pair[1], pair[2], fail)

\* C5: a step of check_and_increment, get_current_usage or reset_limit on
\* one (service, caller) pair changes neither the window of any other pair
\* nor what a check on any other pair would return.
C5_KeysIndependent ==
    [][\A A \in Pairs, B \in Pairs :
          (A # B /\ StepOn(A)) =>
              /\ redis'[GetKey(B[1], B[2])] = redis[GetKey(B[1], B[2])]
              /\ Decision(redis', B[1], B[2], clock)
                     = Decision(redis, B[1], B[2], clock)]_vars

\* one caller's window is full and a call for another caller of the same
\* service has just been admitted
C5_Witness ==
    \E A \in KnownPairs :
        /\ Cardinality(Unexpired(A)) = LIMITS[A[1]].requests
        /\ LastIsCheck /\ ~last.failed /\ LastAllowed
        /\ last.service = A[1] /\ last.user_id # A[2]

\* C6: a check during which the store raised returns a decision that differs
\* from the one a normal admission returns.
C6_DegradedIsMarked == (LastIsCheck /\ last.failed) => last.value # Admitted

\* C8: a check for a service that is not in the limit table raises an
\* unknown-service error, denies, or is counted in a window; it never admits
\* with nothing enforced.
C8_UnknownServiceNotAdmitted ==
    (LastIsCheck /\ last.service \notin DOMAIN LIMITS) =>
        \/ last.raised = "UnknownServiceError"
        \/ ~LastAllowed
        \/ redis[GetKey(last.service, last.user_id)].kind = "zset"

\* C9: after a sync recorded that the provider has R requests remaining
\* until its reset time, at most R further requests of that (service,
\* caller) are admitted before the reset time.
C9_SyncTightens ==
    snapshot.service # <<>> => snapshot.admitted <= snapshot.remaining

\* C10: a call of sync_with_twitter_headers, whatever the headers, leaves
\* the window of every key and the limit table as they were, and with them
\* the decision of a check on any key.
C10_SyncNeverLoosens ==
    [][\A p \in Procs, service \in Services, user_id \in Users,
         headers \in Headers, fail \in BOOLEAN :
          SyncWithTwitterHeaders(p, service, user_id, headers, fail) =>
              /\ LIMITS' = LIMITS
              /\ \A pair \in Pairs :
                    /\ redis'[GetKey(pair[1], pair[2])]
                           = redis[GetKey(pair[1], pair[2])]
                    /\ Decision(redis', pair[1], pair[2], clock)
                           = Decision(redis, pair[1], pair[2], clock)]_vars

\* a sync has written the provider's reset time for a key whose window is
\* full, and the check that followed was denied
C10_Witness ==
    \E pair \in KnownPairs :
        /\ redis[ResetKey(pair[1], pair[2])].kind = "string"
        /\ LastIsCheck /\ ~LastAllowed
        /\ <<last.service, last.user_id>> = pair

\* C16: no operation of the limiter lets a failure of the coordination
\* store escape to its caller: a call during which the store raised returns
\* normally.
C16_StoreErrorNeverEscapes == last.raised # "RedisError"

\* the ticks from now until the oldest entry of process p's key leaves the
\* window
UntilOldestLeaves(p) ==
    LET f == frame[p]
        oldest == ZRangeFirst(redis[GetKey(f.service, f.user_id)])
    IN  {(t + WindowTicks(f.service)) - f.now : t \in oldest}

\* C18: the retry_after of a denial is the time until the oldest surviving
\* entry leaves the window, rounded up to the next whole second (at most one
\* second more), not a fixed constant; with 50 requests per 60 s admitted
\* from time 0 on, a denial at time 10 returns a retry_after within one
\* second of 50.
C18_RetryAfterFromOldest ==
    /\ [][\A p \in Procs :
            (/\ CheckDeny(p, FALSE)
             /\ ~WrongType(redis[GetKey(frame[p].service, frame[p].user_id)])
             /\ UntilOldestLeaves(p) # {})
               => /\ last'.op = "check_and_increment"
                  /\ ~last'.value[1]
                  /\ \E left \in UntilOldestLeaves(p) :
                        (last'.value[2] * TicksPerSec) - left
                            \in 1..TicksPerSec]_vars
    /\ [](\A r \in RetryAfter({0}, Str("anthropic_api"), 10 * TicksPerSec) :
             r \in 49..51)

\* a denial told its caller to wait less than the window's length
C18_Witness ==
    /\ LastIsCheck /\ ~last.failed /\ ~LastAllowed
    /\ last.service \in DOMAIN LIMITS
    /\ LastRetryAfter > 0
    /\ LastRetryAfter < LIMITS[last.service].window_seconds

\* C23: no operation of the limiter changes the limit table: at every
\* state twitter_user_timeline is 900 requests per 900 s and anthropic_api
\* is 50 requests per 60 s, and every step of check_and_increment,
\* get_current_usage, reset_limit and sync_with_twitter_headers leaves
\* every entry of LIMITS as it was.
C23_LimitsNeverMutated ==
    /\ [](/\ LIMITS[Str("twitter_user_timeline")]
                = [requests |-> 900, window_seconds |-> 900]
          /\ LIMITS[Str("anthropic_api")]
                = [requests |-> 50, window_seconds |-> 60])
    /\ [][LIMITS' = LIMITS]_vars

\* a check was denied on a key for which a sync had written the provider's
\* reset time
C23_Witness ==
    /\ LastIsCheck /\ ~LastAllowed
    /\ redis[ResetKey(last.service, last.user_id)].kind = "string"

\* the entries of a sorted set that are later than window_start
Live(v, window_start) == {e \in v.members : e.score > window_start}

\* windows of the HTTP path with entries in the seconds 0..2, and the
\* seconds at which they are checked: one window length later
SampleWindows ==
    {[kind |-> "zset",
      members |-> {[member |-> Str(t), score |-> t] : t \in scores},
      val |-> 0, ttl |-> -1] : scores \in (SUBSET (0..2)) \ {{}}}

SampleTimes == {MinuteWindow + t : t \in 0..2}

\* C26: the count on which check_and_increment, get_current_usage and
\* is_rate_limited base their result is the number of entries later than
\* now - window_seconds: an entry at or before that time is purged first
\* and never counted.
C26_PurgedBeforeCounting ==
    /\ [][\A p \in Procs :
            /\ (CheckCount(p, FALSE) /\ pc'[p] \in {"oldest", "add"}) =>
                  frame'[p].current_count =
                      Cardinality(Live(
                          redis[GetKey(frame[p].service, frame[p].user_id)],
                          frame[p].now - WindowTicks(frame[p].service)))
            /\ \A service \in Services \cap DOMAIN LIMITS, user_id \in Users :
                  (/\ GetCurrentUsage(p, service, user_id, FALSE)
                   /\ last'.raised = "none") =>
                      last'.usage[1] =
                          Cardinality(Live(redis[GetKey(service, user_id)],
                                           clock - WindowTicks(service)))]_vars
    /\ [](\A v \in SampleWindows, current_time \in SampleTimes :
             LET key == MinuteKeyOf(Str("a"))
                 result == IsRateLimitedAt([windows EXCEPT ![key] = v], key,
                                           RateLimitPerMinute, MinuteWindow,
                                           FALSE, current_time)
             IN  result.info.requests =
                     Cardinality(Live(v, current_time - MinuteWindow)))

\* a check has read the clock and is about to count a window that holds an
\* entry that has left the window and one that has not
C26_Witness ==
    \E p \in Procs :
        /\ pc[p] = "pipe1"
        /\ LET v == redis[GetKey(frame[p].service, frame[p].user_id)]
               window_start == frame[p].now - WindowTicks(frame[p].service)
           IN  /\ Live(v, window_start) # {}
               /\ Live(v, window_start) # v.members

\* C29: a denied check_and_increment consumes no capacity: the pipeline
\* that finds the key over its limit removes the expired entries and
\* nothing else, and the rest of the call leaves the store as it is; the
\* key's expiry is not changed.
C29_DenialConsumesNothing ==
    [][\A p \in Procs :
          LET key == GetKey(frame[p].service, frame[p].user_id)
          IN  /\ (CheckCount(p, FALSE) /\ pc'[p] = "oldest") =>
                    /\ redis'[key].members =
                          Live(redis[key],
                               frame[p].now - WindowTicks(frame[p].service))
                    /\ redis'[key].ttl = redis[key].ttl
                    /\ \A k \in AllKeys \ {key} : redis'[k] = redis[k]
              /\ (pc[p] = "oldest" /\ pc'[p] = "idle") => redis' = redis]_vars

\* a call was denied on a full window whose expiry an admission had set
C29_Witness ==
    /\ LastIsCheck /\ ~last.failed /\ ~LastAllowed
    /\ last.service \in DOMAIN LIMITS
    /\ LET v == redis[GetKey(last.service, last.user_id)]
       IN  /\ ZCard(v) = LIMITS[last.service].requests
           /\ v.ttl > 0

\* C32: every admitted request is recorded as an entry of its own: the
\* step of check_and_increment that records an admission leaves the key's
\* window with one entry more than it had, also when another admission
\* carries the same timestamp
C32_AdmissionAddsOwnEntry ==
    [][\A p \in Procs :
          LET key == GetKey(frame[p].service, frame[p].user_id)
          IN  (CheckAdd(p, FALSE) /\ ~WrongType(redis[key])) =>
                  ZCard(redis'[key]) = ZCard(redis[key]) + 1]_vars

\* C33: whenever check_and_increment denies, its retry_after is at least 1
\* and at most window_seconds + 1, whatever other callers, reset_limit and
\* the passing of time did between its count and its lookup of the oldest
\* entry
C33_RetryAfterWithinWindow ==
    (LastIsCheck /\ ~LastAllowed /\ last.service \in DOMAIN LIMITS) =>
        /\ LastRetryAfter >= 1
        /\ LastRetryAfter <= LIMITS[last.service].window_seconds + 1

-----------------------------------------------------------------------------
(* Specification of two processes whose clocks differ: they call           *)
(* check_and_increment for one key, one call after the other               *)

InitSkew ==
    /\ skew \in {f \in [Procs -> 0..MaxSkew] : f[1] = 0 /\ f[2] > 0}
    /\ InitLimiter
    /\ db = EmptyDb
    /\ wrapper = IdleWrapper
    /\ observe = {}

NextSkew ==
    \/ Tick
    \/ \E p \in Procs : SkewedCheck(p, Str("test_service"), Str("a"))

SpecSkew == InitSkew /\ [][NextSkew]_vars

\* the admissions inside the window of length window_ticks that ends at
\* time t of the store's clock
AdmitsInWindow(t, window_ticks) ==
    {i \in DOMAIN admits : admits[i] > t - window_ticks /\ admits[i] <= t}

\* C34: with two processes whose clocks differ by less than the window, the
\* admissions to one key inside any interval of window_seconds of true time
\* are at most max_requests
C34_LimitHoldsUnderSkew ==
    \A t \in 0..MaxClock :
        Cardinality(AdmitsInWindow(t, WindowTicks(Str("test_service"))))
            <= LIMITS[Str("test_service")].requests

\* C37: reset_limit restores the full capacity of its key and of no other:
\* the step that resets a key leaves every other key as it was, a
\* get_current_usage of the key right after it counts 0 and a
\* check_and_increment right after it is admitted; and of the calls to a
\* key that follow its reset inside one window, the first max_requests
\* are admitted
C37_ResetRestoresOneKey ==
    /\ [][\A p \in Procs, service \in Services, user_id \in Users :
            ResetLimit(p, service, user_id, FALSE) =>
               LET key == GetKey(service, user_id)
               IN  /\ \A k \in AllKeys \ {key} : redis'[k] = redis[k]
                   /\ service \in DOMAIN LIMITS =>
                        ZCard(ZRemRangeByScore(redis'[key], 0,
                                 clock - WindowTicks(service))) = 0
                   /\ Decision(redis', service, user_id, clock) = {Admitted}
                   /\ run'[<<service, user_id>>] = NoRun]_vars
    /\ [](InRun /\ last.index <= LIMITS[last.service].requests
             => last.value = Admitted)

\* a key was reset while the window of another caller of the service was
\* full
C37_Witness ==
    /\ last.op = "reset_limit" /\ last.raised = "none"
    /\ last.service \in DOMAIN LIMITS
    /\ redis[GetKey(last.service, last.user_id)] = Absent
    /\ \E u \in Users \ {last.user_id} :
          ZCard(redis[GetKey(last.service, u)]) = LIMITS[last.service].requests

\* C38: reading usage consumes nothing: a get_current_usage that returns
\* adds no entry to any window, returns the number of unexpired entries of
\* the key and max_requests for a known service and (0, 0) for an unknown
\* one, and leaves what check_and_increment decides for any key, now and
\* at any later time, as it was
C38_ReadConsumesNothing ==
    [][\A p \in Procs, service \in Services, user_id \in Users :
          GetCurrentUsage(p, service, user_id, FALSE) =>
             /\ \A k \in AllKeys : redis'[k].members \subseteq redis[k].members
             /\ last'.usage =
                   IF service \in DOMAIN LIMITS
                   THEN <<Cardinality(Unexpired(<<service, user_id>>)),
                          LIMITS[service].requests>>
                   ELSE <<0, 0>>
             /\ \A pair \in Pairs, t \in clock..MaxClock :
                   Decision(redis', pair[1], pair[2], t)
                       = Decision(redis, pair[1], pair[2], t)]_vars

\* a read has counted a full window
C38_Witness ==
    /\ last.op = "get_current_usage" /\ last.raised = "none"
    /\ last.service \in DOMAIN LIMITS
    /\ last.usage = <<LIMITS[last.service].requests,
                      LIMITS[last.service].requests>>

-----------------------------------------------------------------------------
(* Specification of the quota path: the processes serve the requests of    *)
(* one tenant                                                              *)

Subscriptions ==
    {<<>>} \cup {<<[tier |-> tier, status |-> status]>> :
                    tier \in Tiers, status \in {"active", "canceled"}}

\* the api_usage rows a tenant with these subscription rows can have
UsageRows(subscriptions) ==
    IF subscriptions = <<>>
    THEN {<<>>}
    ELSE {<<>>} \cup {<<GetMonthlyQuota(subscriptions[1].tier) - h>> :
                         h \in 0..MaxHeadroom}

InitQuota ==
    /\ skew = NoSkew
    /\ InitLimiter
    /\ wrapper = IdleWrapper
    /\ observe = {}
    /\ \E subscriptions \in Subscriptions :
         \E api_usage \in UsageRows(subscriptions) :
            db = [subscriptions |-> subscriptions, api_usage |-> api_usage,
                  analyses |-> 0]

NextQuota ==
    \E p \in Procs, err \in StoreOutcomes :
        \/ GateQuota(p, err)
        \/ RouteCheckQuota(p, err)
        \/ RouteSubscription(p, err)
        \/ IncrementSelect(p, err)
        \/ IncrementWrite(p, err)
        \/ CreateAnalysis(p, err)

SpecQuota == InitQuota /\ [][NextQuota]_vars

-----------------------------------------------------------------------------
(* Properties of the quota path *)

Subscribed == db.subscriptions # <<>>

TierQuota == GetMonthlyQuota(db.subscriptions[1].tier)

\* C3: requests_used of the tenant never exceeds the quota of the tenant's
\* tier, however the quota checks and the increments of concurrent
\* requests interleave
C3_UsedNeverExceedsQuota ==
    Subscribed =>
        \A i \in DOMAIN db.api_usage : db.api_usage[i] <= TierQuota

\* C7: a quota check during which the durable store failed denies the
\* request, and the denial it leads to does not read as quota exceeded
C7_QuotaStoreFailureDenies ==
    /\ (quota_check.called /\ quota_check.failed)
           => quota_check.quota_exceeded
    /\ (reply.by = "dispatch" /\ reply.failed)
           => reply.detail # GateQuotaDetail

\* C21: the api_usage store holds at most one record for the tenant and the
\* tenant's current period, whatever increment_usage calls have run,
\* concurrent first calls included
C21_OneUsageRecord == Len(db.api_usage) <= 1

\* the usage the tenant's records of the current period add up to
RECURSIVE UsedInPeriod(_)
UsedInPeriod(rows) ==
    IF rows = <<>> THEN 0 ELSE Head(rows) + UsedInPeriod(Tail(rows))

QuotaCheckExact(used) ==
    /\ quota_check'.called
    /\ quota_check'.quota_exceeded <=> (used >= TierQuota)
    /\ quota_check'.quota_info.requests_used = used
    /\ quota_check'.quota_info.remaining = Max(0, TierQuota - used)

\* C27: with the store healthy, check_monthly_quota reports the quota
\* exceeded exactly when the usage of the tenant's current period has
\* reached the quota of the tenant's tier, and reports
\* remaining = max(0, quota - requests_used)
C27_QuotaCheckExact ==
    [][\A p \in Procs :
          (GateQuota(p, "ok") /\ Subscribed) =>
              QuotaCheckExact(UsedInPeriod(db.api_usage))]_vars

\* the same, for a tenant with at most one usage record
C27_QuotaCheckExact_OneRecord ==
    [][\A p \in Procs :
          (GateQuota(p, "ok") /\ Subscribed /\ Len(db.api_usage) <= 1) =>
              QuotaCheckExact(UsedInPeriod(db.api_usage))]_vars

\* SpecQuotaSeq: the requests of the tenant are served one after the other;
\* at the start the analyses of the period are as many as its requests_used
InitQuotaSeq ==
    /\ skew = NoSkew
    /\ InitLimiter
    /\ wrapper = IdleWrapper
    /\ observe = {}
    /\ \E subscriptions \in Subscriptions :
         \E api_usage \in UsageRows(subscriptions) :
            db = [subscriptions |-> subscriptions, api_usage |-> api_usage,
                  analyses |-> UsedInPeriod(api_usage)]

NextQuotaSeq ==
    \E err \in StoreOutcomes :
        \/ GateQuota(1, err)
        \/ RouteCheckQuota(1, err)
        \/ RouteSubscription(1, err)
        \/ IncrementSelect(1, err)
        \/ IncrementWrite(1, err)
        \/ CreateAnalysis(1, err)

SpecQuotaSeq == InitQuotaSeq /\ [][NextQuotaSeq]_vars

\* C36: with the requests served one after the other, requests_used of the
\* period equals the number of accepted requests (202, analysis record
\* created) whenever no request is in progress: a request that is rejected
\* leaves requests_used as it was
C36_UsedMatchesAccepted ==
    (\A p \in Procs : At(p, "idle")) =>
        UsedInPeriod(db.api_usage) = db.analyses

-----------------------------------------------------------------------------
(* Specification of the retry wrapper: one call of a wrapped function      *)

InitRetry ==
    /\ skew = NoSkew
    /\ InitLimiter
    /\ observe = {}
    /\ db = EmptyDb
    /\ \E max_retries \in -1..MaxRetries, base_delay \in BaseDelays,
          coroutine \in BOOLEAN :
          wrapper = [IdleWrapper EXCEPT !.pc = "loop",
                                        !.max_retries = max_retries,
                                        !.base_delay = base_delay,
                                        !.coroutine = coroutine]

NextRetry ==
    \/ Loop
    \/ CallReturns
    \/ \E retry_after \in RetryAfters : CallRaisesRateLimit(retry_after)
    \/ \E header \in RetryAfterHeaders : CallRaises429(header)
    \/ CallRaisesOther
    \/ Sleep
    \/ Cancel
    \/ \E kind \in {"RateLimitExceeded", "Exception"} : AwaitRaises(kind)

\* a call of the wrapper runs on until it returns or raises
SpecRetry == InitRetry /\ [][NextRetry]_vars /\ WF_vars(NextRetry)

-----------------------------------------------------------------------------
(* Properties of the retry wrapper *)

Sleeping == wrapper.pc = "sleep"

\* C11: on a rejection that reports a retry-after larger than the backoff
\* base_delay * 2^attempt, the wrapper sleeps the retry-after, whether the
\* rejection is a RateLimitExceeded or an HTTP 429 with a Retry-After header
C11_WaitsTheLarger ==
    (/\ Sleeping
     /\ wrapper.rejection.reported
     /\ wrapper.rejection.retry_after
            > Backoff(wrapper.base_delay, wrapper.attempt))
        => wrapper.delay = wrapper.rejection.retry_after

\* the delays the wrapper may choose on the rejection it is sleeping on
DelayChoices ==
    IF wrapper.rejection.kind = "RateLimitExceeded"
    THEN DelaysAfterRateLimit(wrapper.base_delay, wrapper.attempt,
                              wrapper.rejection.retry_after)
    ELSE DelaysAfter429(wrapper.base_delay, wrapper.attempt,
                        [given |-> wrapper.rejection.reported,
                         numeric |-> TRUE,
                         seconds |-> wrapper.rejection.retry_after])

\* C12: on a rejection that carries a retry_after the wrapper sleeps within
\* 20% of min(base_delay * 2^attempt, retry_after), and the delay is one of
\* several it may choose, so that two callers need not sleep the same
C12_JitteredMinDelay ==
    (Sleeping /\ wrapper.rejection.reported) =>
        LET m == Min(Backoff(wrapper.base_delay, wrapper.attempt),
                     wrapper.rejection.retry_after)
        IN  /\ 5 * (wrapper.delay - m) <= m
            /\ 5 * (m - wrapper.delay) <= m
            /\ Cardinality(DelayChoices) > 1

C13_Safe ==
    wrapper.max_retries >= 0 =>
        /\ wrapper.calls <= wrapper.max_retries + 1
        /\ wrapper.pc = "done" =>
              /\ wrapper.outcome \in {"returned", "raised"}
              /\ (wrapper.all_rejected /\ wrapper.outcome = "raised") =>
                    /\ wrapper.raised.kind = "RateLimitExceeded"
                    /\ wrapper.raised.retry_after
                           = wrapper.rejection.retry_after
                    /\ wrapper.calls = wrapper.max_retries + 1

\* C13: a wrapper with max_retries >= 0 calls the function at most
\* max_retries + 1 times and ends returning its result or raising, never
\* returning None of its own; rejected every time, it raises the
\* RateLimitExceeded of the last attempt
C13_BoundedCallsNeverNone == []C13_Safe /\ <>(wrapper.pc = "done")

C13_Witness ==
    /\ wrapper.pc = "done"
    /\ wrapper.max_retries = MaxRetries
    /\ wrapper.calls = MaxRetries + 1
    /\ wrapper.all_rejected
    /\ wrapper.outcome = "raised"

\* C25: the retry loop governs a wrapped coroutine function: a
\* RateLimitExceeded raised by the local check in its body reaches the
\* caller only after the wrapper has made max_retries + 1 attempts
C25_WrapperGovernsCoroutine ==
    (/\ wrapper.coroutine
     /\ wrapper.max_retries >= 0
     /\ wrapper.escaped = "RateLimitExceeded")
        => wrapper.calls = wrapper.max_retries + 1

\* C22: a cancellation that arrives during a backoff wait ends the wait at
\* once, and the wrapper makes no further attempt after it
C22_CancelEndsWait ==
    /\ [](wrapper.cancelled => ~Sleeping)
    /\ [][wrapper.cancelled => wrapper'.calls = wrapper.calls]_vars

-----------------------------------------------------------------------------
(* Specification of the Request Gate: the requests of one tenant and of    *)
(* one anonymous client pass RateLimitMiddleware                           *)

InitGate ==
    /\ skew = NoSkew
    /\ InitLimiter
    /\ observe = {}
    /\ wrapper = IdleWrapper
    /\ \E api_usage \in {<<>>, <<MonthlyQuotaBasic>>} :
          db = [subscriptions |-> <<[tier |-> "basic", status |-> "active"]>>,
                api_usage |-> api_usage, analyses |-> 0]

\* the gate reads whole seconds: a second passes
SecondTick ==
    /\ clock + TicksPerSec <= MaxClock
    /\ clock' = clock + TicksPerSec
    /\ UNCHANGED <<redis, LIMITS, pc, frame, last, run, denial, snapshot,
                   read, observe, besideLimiter>>

\* a behaviour follows the requests of one client: no other client has
\* a window in the store
OnlyClient(user_id) ==
    \A u \in GateUsers \ {user_id} :
        /\ windows[GateKey("minute", GetIdentifier(u), MinuteWindow)] = Absent
        /\ windows[GateKey("hour", GetIdentifier(u), HourWindow)] = Absent

NextGate ==
    \/ SecondTick
    \/ \E p \in GateProcs, path \in Paths, user_id \in GateUsers :
          /\ OnlyClient(user_id)
          /\ DispatchBegin(p, path, user_id)
    \/ \E p \in GateProcs, outcome \in GateOutcomes :
          \/ DispatchMinute(p, outcome)
          \/ DispatchHour(p, outcome)
    \/ \E p \in GateProcs, err \in StoreOutcomes : DispatchQuota(p, err)
    \/ \E p \in GateProcs : CallNext(p)

SpecGate == InitGate /\ [][NextGate]_vars

-----------------------------------------------------------------------------
(* Properties of the Request Gate *)

Denied == response.by = "dispatch" /\ response.status = 429

HourKeyOf(user_id) == GateKey("hour", GetIdentifier(user_id), HourWindow)

\* no request goes on after a check found it over the limit, and the
\* checks a response rests on are the ones up to the check that denied
C14_Order ==
    /\ \A p \in Procs :
          /\ request[p].limited = {}
          /\ request[p].touched \in
                {{}, {"minute"}, {"minute", "hour"},
                 {"minute", "hour", "quota"}}
    /\ Denied =>
          /\ response.limited = {response.tier}
          /\ response.touched =
                CASE response.tier = "minute" -> {"minute"}
                  [] response.tier = "hour" -> {"minute", "hour"}
                  [] OTHER -> {"minute", "hour", "quota"}

\* C14: dispatch checks the minute window, then the hour window, then the
\* quota, and stops at the first denial: the step that denies on the
\* minute window leaves the hour window and the durable store as they
\* were, the step that denies on the hour window leaves the durable store
\* as it was, and a denied request takes no further step
C14_MinuteHourQuotaShortCircuit ==
    /\ []C14_Order
    /\ [][\A p \in Procs, outcome \in GateOutcomes :
            /\ (DispatchMinute(p, outcome) /\ response'.tier = "minute"
                    /\ response' # response)
                  => /\ windows'[HourKeyOf(request[p].user_id)]
                           = windows[HourKeyOf(request[p].user_id)]
                     /\ db' = db /\ quota_check' = quota_check
                     /\ request'[p].pc = "idle"
            /\ (DispatchHour(p, outcome) /\ response'.tier = "hour"
                    /\ response' # response)
                  => /\ db' = db /\ quota_check' = quota_check
                     /\ request'[p].pc = "idle"]_vars

\* an hourly denial has followed a minute check that passed
C14_Witness ==
    /\ Denied
    /\ response.tier = "hour"
    /\ response.touched = {"minute", "hour"}

\* the limit of the check that denied
TierLimit ==
    CASE response.tier = "minute" -> RateLimitPerMinute
      [] response.tier = "hour" -> RateLimitPerHour
      [] OTHER -> TierQuota

\* the tier a client can read from the headers of a denial
HeaderTier ==
    IF "X-Quota-Limit" \in DOMAIN response.headers THEN "quota"
    ELSE IF "Retry-After" \notin DOMAIN response.headers THEN "none"
    ELSE IF response.headers["Retry-After"] = Str(MinuteWindow) THEN "minute"
    ELSE "hour"

\* C15: every denial of the gate is a 429 whose headers give the limit of
\* the tier that denied, a remaining count of 0, the tier, and a retry-after
C15_DenialCarriesMetadata ==
    Denied =>
        LET h == response.headers
            limit_name == IF response.tier = "quota"
                          THEN "X-Quota-Limit" ELSE "X-RateLimit-Limit"
            remaining_name == IF response.tier = "quota"
                              THEN "X-Quota-Remaining"
                              ELSE "X-RateLimit-Remaining"
        IN  /\ limit_name \in DOMAIN h
            /\ h[limit_name] = Str(TierLimit)
            /\ remaining_name \in DOMAIN h
            /\ h[remaining_name] = Str(0)
            /\ HeaderTier = response.tier
            /\ "Retry-After" \in DOMAIN h

\* C17: an authenticated request to a route that is neither billable nor
\* exempt, which passed the minute and hour checks while the durable store
\* failed during its quota check, reaches its handler
C17_QuotaFailureSparesNonBillable ==
    (/\ response.by # "none"
     /\ response.quota_failed
     /\ response.path \notin BillablePaths)
        => response.by = "handler"

\* C24: with the store healthy, of the requests to one key inside one
\* window the first `limit` are not limited and every later one is, also
\* when several arrive in the same clock second: every request the minute
\* check lets through is one more entry in the window the next check counts.
C24_EveryPassCounted ==
    [][\A p \in GateProcs :
          (DispatchMinute(p, "ok") /\ request'[p].pc = "hour") =>
              LET key == MinuteKeyOf(request[p].user_id)
                  counted == ZCard(ZRemRangeByScore(
                                 windows[key], 0, CurrentTime - MinuteWindow))
              IN  ZCard(windows'[key]) = counted + 1]_vars

\* the path starts with one of /docs, /redoc, /openapi.json, /healthz,
\* /api/webhooks
HasExemptPrefix(path) ==
    \E route \in {<<"docs">>, <<"redoc">>, <<"openapi.json">>, <<"healthz">>,
                  <<"api", "webhooks">>} : StartsWith(path, route)

\* C28: a request whose path starts with an exempt prefix is passed to the
\* handler, and no step of it touches a rate-limit window or the quota
\* store; every other request that reaches a handler has been through the
\* per-minute check.
C28_ExemptBypassOthersChecked ==
    /\ [](response.by # "none" =>
            IF HasExemptPrefix(response.path)
            THEN response.by = "handler" /\ response.touched = {}
            ELSE response.by = "handler" => "minute" \in response.touched)
    /\ [][\A p \in GateProcs :
            (/\ request[p].pc # "idle"
             /\ HasExemptPrefix(request[p].path)
             /\ request'[p] # request[p])
               => /\ windows' = windows
                  /\ db' = db
                  /\ response'.by = "handler"]_vars

\* a request to /healthz/db was passed to its handler while its client was
\* at the per-minute limit
C28_Witness ==
    /\ response.by = "handler"
    /\ response.path = HealthzDbPath
    /\ ZCard(windows[MinuteKeyOf(response.user_id)]) >= RateLimitPerMinute

\* the latest score of a sorted set, in the unit its scores are kept in
Newest(v) == {e.score : e \in {x \in v.members :
                                  \A y \in v.members : y.score <= x.score}}

\* the key's time to live ends later than the window of its newest entry
OutlivesWindow(v, window_ticks, ticks_per_score) ==
    v.kind = "zset" =>
        \A t \in Newest(v) : v.ttl > (t * ticks_per_score) + window_ticks

\* C20: in both limiters a key that holds admissions has a store-side
\* expiry of window_seconds plus a positive margin after its latest
\* admission, so that the store drops it only after its last entry has left
\* the window by that margin.
C20_ExpiryHasMargin ==
    /\ \A pair \in Pairs :
          pair[1] \in DOMAIN LIMITS =>
              OutlivesWindow(redis[GetKey(pair[1], pair[2])],
                             WindowTicks(pair[1]), 1)
    /\ \A u \in GateUsers :
          /\ OutlivesWindow(
                 windows[GateKey("minute", GetIdentifier(u), MinuteWindow)],
                 MinuteWindow * TicksPerSec, TicksPerSec)
          /\ OutlivesWindow(
                 windows[GateKey("hour", GetIdentifier(u), HourWindow)],
                 HourWindow * TicksPerSec, TicksPerSec)

\* the step of process p that denies its request at a tier
DeniesAt(p, tier) ==
    /\ request[p].pc = tier
    /\ request'[p].pc = "idle"
    /\ response'.by = "dispatch" /\ response'.status = 429
    /\ response'.tier = tier

\* C30: a request the gate denies consumes no capacity: the step that
\* denies a request on the minute window adds no entry to the caller's
\* minute window, and the step that denies it on the hour window adds
\* no entry to the caller's hour window
C30_DeniedRequestNotRecorded ==
    [][\A p \in GateProcs :
          /\ DeniesAt(p, "minute") =>
                windows'[MinuteKeyOf(request[p].user_id)].members \subseteq
                    windows[MinuteKeyOf(request[p].user_id)].members
          /\ DeniesAt(p, "hour") =>
                windows'[HourKeyOf(request[p].user_id)].members \subseteq
                    windows[HourKeyOf(request[p].user_id)].members]_vars

-----------------------------------------------------------------------------
(* Specification of one client of the HTTP path that keeps sending *)

InitClient ==
    /\ skew = NoSkew
    /\ InitLimiter
    /\ observe = {}
    /\ wrapper = IdleWrapper
    /\ db = EmptyDb

NextClient ==
    \/ \E gap \in Gaps : Wait(gap)
    \/ \E fail \in BOOLEAN : ClientRequest(<<>>, fail)

SpecClient == InitClient /\ [][NextClient]_vars

-----------------------------------------------------------------------------
(* Properties of the client that keeps sending *)

\* C31: a limited client is admitted again whatever it sent while limited:
\* a request that finds fewer than the limit of the client's admitted
\* requests inside the window is not limited
C31_AdmittedAgainWhileSending ==
    [][\A fail \in BOOLEAN :
          (/\ ClientRequest(<<>>, fail)
           /\ Len(AdmittedInWindow(CurrentTime, MinuteWindow)) <
                 RateLimitPerMinute)
             => ~client'.is_limited]_vars

-----------------------------------------------------------------------------
(* Specification of the store dropping keys: one task and one HTTP client  *)
(* use their limiters, and time passes until the keys' time to live is up  *)

InitExpiry ==
    /\ skew = NoSkew
    /\ InitLimiter
    /\ observe = {}
    /\ wrapper = IdleWrapper
    /\ db = EmptyDb

\* the times to live the two limiters give their keys, in seconds
Lifetimes ==
    {MinuteWindow, InitialLimits[Str("test_service")].window_seconds + 60}

\* the store answers every call: a call it fails writes neither an entry
\* nor a time to live
NextExpiry ==
    \/ Tick
    \/ \E gap \in Lifetimes : Wait(gap)
    \/ CheckBegin(1, Str("test_service"), Str("a"))
    \/ CheckCount(1, FALSE)
    \/ CheckDeny(1, FALSE)
    \/ CheckAdd(1, FALSE)
    \/ ClientRequest(<<>>, FALSE)

SpecExpiry == InitExpiry /\ [][NextExpiry]_vars

-----------------------------------------------------------------------------
(* Properties of the store dropping keys *)

TaskKey == GetKey(Str("test_service"), Str("a"))

\* the entries of value v, scored in units of ticks_per_score ticks, that
\* are inside the window of window_ticks that ends at time t
LiveAt(v, t, ticks_per_score, window_ticks) ==
    {e \in v.members : e.score * ticks_per_score > t - window_ticks}

\* the keys the store drops when the clock reaches t
Dropped(store, t) == {k \in DOMAIN store : store[k] # Absent /\ Expired(store, t)[k] = Absent}

\* C35: the store never drops a live entry: at the time a key's time to
\* live runs out, none of its entries is inside the window, in both
\* limiters; and a step in which the store drops a key leaves the count
\* of live entries of every key as it was
C35_ExpiryDropsNoLiveEntry ==
    /\ [](/\ redis[TaskKey].kind = "zset" =>
               LiveAt(redis[TaskKey], redis[TaskKey].ttl, 1,
                      WindowTicks(Str("test_service"))) = {}
          /\ \A u \in GateUsers :
               windows[MinuteKeyOf(u)].kind = "zset" =>
                  LiveAt(windows[MinuteKeyOf(u)], windows[MinuteKeyOf(u)].ttl,
                         TicksPerSec, MinuteWindow * TicksPerSec) = {})
    /\ [][\A gap \in Lifetimes :
            Wait(gap) =>
               /\ \A k \in Dropped(redis, clock') :
                     LiveAt(redis[k], clock', 1,
                            WindowTicks(Str("test_service"))) = {}
               /\ \A k \in Dropped(windows, clock') :
                     LiveAt(windows[k], clock', TicksPerSec,
                            MinuteWindow * TicksPerSec) = {}]_vars

\* the store has dropped the key of a task that had been admitted and the
\* key of an HTTP client whose requests it had counted
C35_Witness ==
    /\ LastIsCheck /\ LastAllowed /\ ~last.failed
    /\ last.service = Str("test_service")
    /\ redis[TaskKey] = Absent
    /\ client.requests >= 1
    /\ windows[MinuteKeyOf(<<>>)] = Absent

-----------------------------------------------------------------------------
(* Specification of an outbound call: a task calls a third-party API, one  *)
(* call after the other                                                    *)

InitOutbound ==
    /\ skew = NoSkew
    /\ InitLimiter
    /\ observe = {}
    /\ db = EmptyDb
    /\ wrapper = IdleWrapper

NextOutbound ==
    \/ \E function \in OutboundFunctions : OutboundCall(function)
    \/ \E result \in LocalChecks : OutboundCheck(result)
    \/ \E result \in HttpResults : OutboundHttp(result)
    \/ \E fail \in BOOLEAN : OutboundSync(fail)
    \/ OutboundDecide
    \/ OutboundRetry

SpecOutbound == InitOutbound /\ [][NextOutbound]_vars

-----------------------------------------------------------------------------
(* Properties of an outbound call *)

\* the steps of one run of the function, in the order the body takes them
OutboundOrder(function) ==
    IF HasSync(function)
    THEN <<"check", "http", "sync", "decide">>
    ELSE <<"check", "http", "decide">>

IsPrefix(a, b) == Len(a) <= Len(b) /\ a = SubSeq(b, 1, Len(a))

\* the runs of the function begun so far in this call
Runs == IF outbound.pc = "idle" THEN 0 ELSE outbound.attempt + 1

\* every run takes its steps in the order local check, HTTP request, sync
\* (where the function has one), decision, and sends no HTTP request after
\* a local denial
OutboundInOrder ==
    outbound.pc # "idle" =>
        /\ IsPrefix(outbound.events, OutboundOrder(outbound.function))
        /\ Len(outbound.events) > 1 => outbound.allowed
        /\ outbound.sent <= outbound.checks
        /\ outbound.slots <= outbound.checks

====
